---- MODULE Spec2Model ----
(***************************************************************************)
(* whisperx-web: the speaker registry (database.py, database_updates.py,   *)
(* the /api/speakers routes of routes.py) and speaker matching             *)
(* (speaker_recognition.py), as state machines.                            *)
(*                                                                         *)
(* SpecRegistry : the registry operations, one action per call or per      *)
(*                statement of a multi-statement transaction.              *)
(* SpecMatch    : match_speakers on bounded segment lists and known        *)
(*                speaker lists.                                           *)
(* SpecMatchFaults : match_speakers on known speaker lists that hold a     *)
(*                stored embedding of two dimensions.                      *)
(* SpecConcurrent : save_speaker called by two jobs at once.               *)
(* SpecFunctions : the functions without side effects on the registry,     *)
(*                one call each (audio_processing.py, transcription.py,    *)
(*                speaker_recognition.py).                                 *)
(* SpecPipeline : one transcribe_file call (transcription.py), statement   *)
(*                by statement.                                            *)
(***************************************************************************)
EXTENDS Integers, Sequences, FiniteSets, TLC

VARIABLES
    speakers,        \* committed rows of table speakers (database.py:24-31)
    segments,        \* committed rows of table segments (database_updates.py:8,26)
    conn,            \* self.conn of database_updates.py: its open transaction
    last,            \* the last completed call: operation, arguments, result
    clock,           \* completed calls so far; datetime.now() of the next one
    job_segments,    \* the segment dicts handed to match_speakers
    known_speakers,  \* the (id, name, embedding) tuples handed to match_speakers
    query_embedding, \* what compute_embedding returned for each raw label
    match_result,    \* what match_speakers returned, or None before the call
    calls,           \* the save_speaker calls in flight, one for each parallel job
    pipeline,        \* the transcribe_file call: its position, locals and outcome
    files,           \* the files on disk that the program creates and removes
    pure_call        \* one call of a function without side effects: arguments, result

vars == <<speakers, segments, conn, last, clock,
          job_segments, known_speakers, query_embedding, match_result,
          calls, pipeline, files, pure_call>>

None == "None"

(***************************************************************************)
(* Bounds of the model.                                                    *)
(***************************************************************************)
MaxOps == 3

MaxSegRows == 2

MaxSegments == 3

MaxExtraLen == 2

(***************************************************************************)
(* Strings. TLC cannot look inside a string, so each string the model uses *)
(* is spelled out here; LIKE and startswith work on the spelling.          *)
(***************************************************************************)
Chars(s) ==
    CASE s = "SPEAKER_00" -> <<"S","P","E","A","K","E","R","_","0","0">>
      [] s = "SPEAKER_01" -> <<"S","P","E","A","K","E","R","_","0","1">>
      [] s = "speakerX"   -> <<"s","p","e","a","k","e","r","X">>
      [] s = "Alice"      -> <<"A","l","i","c","e">>
      [] s = "Bob"        -> <<"B","o","b">>
      [] s = "SPEAKER_%"  -> <<"S","P","E","A","K","E","R","_","%">>
      [] s = "SPEAKER_"   -> <<"S","P","E","A","K","E","R","_">>
      [] s = ""           -> <<>>

LowerCase == <<"a","b","c","e","i","k","l","o","p","r","s">>

UpperCase == <<"A","B","C","E","I","K","L","O","P","R","S">>

\* SQLite's LIKE folds ASCII case
Upper(c) ==
    IF \E i \in 1..Len(LowerCase) : LowerCase[i] = c
    THEN UpperCase[CHOOSE i \in 1..Len(LowerCase) : LowerCase[i] = c]
    ELSE c

RECURSIVE LikeChars(_, _)
\* SQLite's  str LIKE pat : % any run of characters, _ any one character
LikeChars(str, pat) ==
    IF pat = <<>> THEN str = <<>>
    ELSE IF Head(pat) = "%"
         THEN LikeChars(str, Tail(pat))
              \/ (str # <<>> /\ LikeChars(Tail(str), pat))
         ELSE /\ str # <<>>
              /\ (Head(pat) = "_" \/ Upper(Head(str)) = Upper(Head(pat)))
              /\ LikeChars(Tail(str), Tail(pat))

Like(s, pat) == LikeChars(Chars(s), Chars(pat))

\* Python's str.startswith: exact, case-sensitive prefix
StartsWith(s, prefix) ==
    /\ Len(Chars(s)) >= Len(Chars(prefix))
    /\ SubSeq(Chars(s), 1, Len(Chars(prefix))) = Chars(prefix)

(***************************************************************************)
(* Embeddings: vectors of integers standing for float32 components.        *)
(***************************************************************************)
\* An optional ndarray argument: None, or the array v
NoneArray == [is_none |-> TRUE, v |-> <<>>]

Array(v) == [is_none |-> FALSE, v |-> v]

\* A BLOB column: NULL, or nbytes bytes holding the float32 values data
NullBlob == [is_null |-> TRUE, nbytes |-> 0, data |-> <<>>]

\* ndarray.tobytes() of a float32 array: 4 bytes for each component
ToBytes(v) == [is_null |-> FALSE, nbytes |-> 4 * Len(v), data |-> v]

\* np.frombuffer(blob, dtype=np.float32): raises unless nbytes is a multiple of 4
FromBufferRaises(blob) == blob.nbytes % 4 # 0

FromBuffer(blob) == blob.data

\* embedding.tobytes() if embedding is not None else None   (database.py:78)
EmbeddingBlob(embedding) ==
    IF embedding.is_none THEN NullBlob ELSE ToBytes(embedding.v)

(***************************************************************************)
(* Table speakers: a set of rows; id is the PRIMARY KEY.                   *)
(***************************************************************************)
HasRow(tbl, id) == \E r \in tbl : r.id = id

Row(tbl, id) == CHOOSE r \in tbl : r.id = id

\* INSERT INTO speakers: raises IntegrityError on a duplicate PRIMARY KEY
SqlInsert(tbl, row) ==
    IF HasRow(tbl, row.id)
    THEN [ok |-> FALSE, tbl |-> tbl]
    ELSE [ok |-> TRUE, tbl |-> tbl \cup {row}]

\* save_speaker whose UPDATE also stores the new clip and embedding
save_speaker_overwriting(tbl, speaker_id, clip_path, transcript_sample, embedding, now, raises) ==
    LET blob == EmbeddingBlob(embedding)
        row  == [id |-> speaker_id, name |-> speaker_id, embedding |-> blob,
                 clip_path |-> clip_path, transcript_sample |-> transcript_sample,
                 created_at |-> now, appearance_count |-> 1]
    IN  IF raises THEN [ok |-> FALSE, tbl |-> tbl]
        ELSE IF HasRow(tbl, speaker_id)
        THEN [ok |-> TRUE,
              tbl |-> {IF r.id = speaker_id
                       THEN [r EXCEPT !.appearance_count = @ + 1,
                                      !.embedding = blob, !.clip_path = clip_path]
                       ELSE r : r \in tbl}]
        ELSE SqlInsert(tbl, row)

\* save_speaker whose INSERT leaves the name column empty
save_speaker_unnamed(tbl, speaker_id, clip_path, transcript_sample, embedding, now, raises) ==
    LET blob == EmbeddingBlob(embedding)
        row  == [id |-> speaker_id, name |-> "", embedding |-> blob,
                 clip_path |-> clip_path, transcript_sample |-> transcript_sample,
                 created_at |-> now, appearance_count |-> 1]
    IN  IF raises THEN [ok |-> FALSE, tbl |-> tbl]
        ELSE IF HasRow(tbl, speaker_id)
        THEN [ok |-> TRUE,
              tbl |-> {IF r.id = speaker_id
                       THEN [r EXCEPT !.appearance_count = @ + 1]
                       ELSE r : r \in tbl}]
        ELSE SqlInsert(tbl, row)

\* save_speaker whose INSERT starts appearance_count at 0
save_speaker_counting_from_zero(tbl, speaker_id, clip_path, transcript_sample, embedding, now, raises) ==
    LET blob == EmbeddingBlob(embedding)
        row  == [id |-> speaker_id, name |-> speaker_id, embedding |-> blob,
                 clip_path |-> clip_path, transcript_sample |-> transcript_sample,
                 created_at |-> now, appearance_count |-> 0]
    IN  IF raises THEN [ok |-> FALSE, tbl |-> tbl]
        ELSE IF HasRow(tbl, speaker_id)
        THEN [ok |-> TRUE,
              tbl |-> {IF r.id = speaker_id
                       THEN [r EXCEPT !.appearance_count = @ + 1]
                       ELSE r : r \in tbl}]
        ELSE SqlInsert(tbl, row)

\* Database.save_speaker: SELECT, then UPDATE or INSERT, commit; an exception
\* of any statement (raises) is caught, nothing is committed, False returned.
save_speaker(tbl, speaker_id, clip_path, transcript_sample, embedding, now, raises) ==
    LET blob == EmbeddingBlob(embedding)
        row  == [id |-> speaker_id, name |-> speaker_id, embedding |-> blob,
                 clip_path |-> clip_path, transcript_sample |-> transcript_sample,
                 created_at |-> now, appearance_count |-> 1]
    IN  IF raises THEN [ok |-> FALSE, tbl |-> tbl]
        ELSE IF HasRow(tbl, speaker_id)
        THEN [ok |-> TRUE,
              tbl |-> {IF r.id = speaker_id
                       THEN [r EXCEPT !.appearance_count = @ + 1]
                       ELSE r : r \in tbl}]
        ELSE SqlInsert(tbl, row)

\* Database.get_speaker: the row as a dict (found), or None (not found)
get_speaker(tbl, speaker_id) ==
    IF HasRow(tbl, speaker_id)
    THEN LET r == Row(tbl, speaker_id)
         IN  [found |-> TRUE, id |-> r.id, name |-> r.name]
    ELSE [found |-> FALSE, id |-> None, name |-> None]

\* update_speaker_name whose INSERT keys the new record by the new name
update_speaker_name_keyed_by_name(tbl, speaker_id, new_name, now, raises) ==
    LET row == [id |-> new_name, name |-> new_name, embedding |-> NullBlob,
                clip_path |-> None, transcript_sample |-> None,
                created_at |-> now, appearance_count |-> 1]
    IN  IF raises THEN [ok |-> FALSE, tbl |-> tbl]
        ELSE IF HasRow(tbl, speaker_id)
        THEN [ok |-> TRUE,
              tbl |-> {IF r.id = speaker_id THEN [r EXCEPT !.name = new_name]
                       ELSE r : r \in tbl}]
        ELSE IF HasRow(tbl, new_name) THEN [ok |-> TRUE, tbl |-> tbl]
        ELSE SqlInsert(tbl, row)

\* Database.update_speaker_name: UPDATE name, or INSERT (id, name, created_at, 1)
update_speaker_name(tbl, speaker_id, new_name, now, raises) ==
    LET row == [id |-> speaker_id, name |-> new_name, embedding |-> NullBlob,
                clip_path |-> None, transcript_sample |-> None,
                created_at |-> now, appearance_count |-> 1]
    IN  IF raises THEN [ok |-> FALSE, tbl |-> tbl]
        ELSE IF HasRow(tbl, speaker_id)
        THEN [ok |-> TRUE,
              tbl |-> {IF r.id = speaker_id THEN [r EXCEPT !.name = new_name]
                       ELSE r : r \in tbl}]
        ELSE SqlInsert(tbl, row)

(***************************************************************************)
(* Database.get_speakers_with_embeddings                                   *)
(***************************************************************************)
\* the WHERE clause filtering on the id column instead of the name column
SelectWithEmbeddings_by_id(tbl) ==
    {r \in tbl : ~r.embedding.is_null /\ ~Like(r.id, "SPEAKER_%")}

\* WHERE embedding IS NOT NULL AND name NOT LIKE 'SPEAKER_%'
SelectWithEmbeddings(tbl) ==
    {r \in tbl : ~r.embedding.is_null /\ ~Like(r.name, "SPEAKER_%")}

\* the loop over fetchall(): "if row[2]" drops an empty blob, a frombuffer
\* error drops the row
LoadedRows(tbl) ==
    {r \in SelectWithEmbeddings(tbl) :
        r.embedding.nbytes > 0 /\ ~FromBufferRaises(r.embedding)}

\* np.frombuffer gives an array of one dimension
KnownTuple(r) ==
    [id |-> r.id, name |-> r.name, embedding |-> FromBuffer(r.embedding), ndim |-> 1]

\* ORDER BY appearance_count DESC: rows of equal count come in any order
OrderedByCountDesc(rows) ==
    {s \in [1..Cardinality(rows) -> rows] :
        /\ \A i, j \in DOMAIN s : i # j => s[i] # s[j]
        /\ \A i, j \in DOMAIN s : i < j => s[i].appearance_count >= s[j].appearance_count}

\* the lists get_speakers_with_embeddings may return
get_speakers_with_embeddings(tbl) ==
    {[i \in DOMAIN s |-> KnownTuple(s[i])] : s \in OrderedByCountDesc(LoadedRows(tbl))}

(***************************************************************************)
(* database_updates.py: merge_speakers and delete_speaker run their        *)
(* statements on self.conn, one sqlite3 connection: the first statement    *)
(* opens a transaction, its writes stay in the connection's working copy   *)
(* until commit(), and rollback() discards them.                           *)
(***************************************************************************)
IdleConn == [pc |-> "idle", a |-> None, b |-> None, speakers |-> {}, segments |-> {}]

\* UPDATE segments SET speaker_id = to WHERE speaker_id = from
SqlReassignSegments(segs, from_speaker_id, to_speaker_id) ==
    {IF g.speaker_id = from_speaker_id THEN [g EXCEPT !.speaker_id = to_speaker_id] ELSE g
        : g \in segs}

\* DELETE FROM segments WHERE speaker_id = id
SqlDeleteSegments(segs, speaker_id) == {g \in segs : g.speaker_id # speaker_id}

\* DELETE FROM speakers WHERE id = id
SqlDeleteSpeaker(tbl, speaker_id) == {r \in tbl : r.id # speaker_id}

\* self.conn.commit(): the working copy becomes the committed tables
ConnCommit(c, committed) == [speakers |-> c.speakers, segments |-> c.segments]

\* self.conn.rollback(): the working copy is dropped
ConnRollback(c, committed) == committed

\* a handler that returns False without undoing what the statements wrote
merge_speakers_except_keeping(c, committed) == ConnCommit(c, committed)

\* except Exception: print; self.conn.rollback(); return False
merge_speakers_except(c, committed) == ConnRollback(c, committed)

\* except Exception: print; self.conn.rollback(); return False
delete_speaker_except(c, committed) == ConnRollback(c, committed)

(***************************************************************************)
(* The calls, as actions of the registry.                                  *)
(***************************************************************************)
SpeakerIds == {"SPEAKER_00", "Alice"}

NewNames == {"Alice", "speakerX"}

NoPkg == [clip_path |-> None, transcript_sample |-> None, embedding |-> NoneArray]

\* the (clip_path, transcript_sample, embedding) argument triples tried
SavePkgs ==
    { [clip_path |-> "a.mp3", transcript_sample |-> "hello", embedding |-> Array(<<1, 0>>)],
      [clip_path |-> "b.mp3", transcript_sample |-> "bye",   embedding |-> Array(<<>>)],
      NoPkg }

\* the calls tried: every argument combination without a database error, and
\* one call of each operation with a database error (raises)
SaveCalls ==
    {<<id, pkg, FALSE>> : id \in SpeakerIds, pkg \in SavePkgs}
        \cup {<<id, NoPkg, TRUE>> : id \in SpeakerIds}

RenameCalls ==
    {<<id, new_name, FALSE>> : id \in SpeakerIds, new_name \in NewNames}
        \cup {<<id, "Alice", TRUE>> : id \in SpeakerIds}

ApiMergeCalls ==
    {<<a, b, "none">> : a \in SpeakerIds, b \in SpeakerIds}
        \cup {<<"", "Alice", "none">>, <<"SPEAKER_00", "", "none">>}
        \cup {<<"SPEAKER_00", "Alice", f>> : f \in {"get_speaker", "update_speaker_name"}}

Committed == [speakers |-> speakers, segments |-> segments]

\* fault: the statement or call that raised a database error, or "none"
Call(op, id, arg, pkg, fault, ok, status, rows) ==
    [op |-> op, id |-> id, arg |-> arg, pkg |-> pkg, fault |-> fault, ok |-> ok,
     status |-> status, rows |-> rows]

UnchangedJob ==
    UNCHANGED <<job_segments, known_speakers, query_embedding, match_result,
                calls, pipeline, files, pure_call>>

\* another connection cannot write while self.conn holds its write transaction
Locked == conn.pc # "idle"

SaveSpeaker ==
    \E c \in SaveCalls :
      LET id == c[1]  pkg == c[2]  raises == c[3] IN
        /\ clock < MaxOps
        /\ Locked => raises
        /\ LET r == save_speaker(speakers, id, pkg.clip_path, pkg.transcript_sample,
                                 pkg.embedding, clock, raises)
           IN  /\ speakers' = r.tbl
               /\ last' = Call("save_speaker", id, None, pkg,
                               IF raises THEN "execute" ELSE "none", r.ok, 0, <<>>)
        /\ clock' = clock + 1
        /\ UNCHANGED <<segments, conn>>
        /\ UnchangedJob

UpdateSpeakerName ==
    \E c \in RenameCalls :
      LET id == c[1]  new_name == c[2]  raises == c[3] IN
        /\ clock < MaxOps
        /\ Locked => raises
        /\ LET r == update_speaker_name(speakers, id, new_name, clock, raises)
           IN  /\ speakers' = r.tbl
               /\ last' = Call("update_speaker_name", id, new_name, NoPkg,
                               IF raises THEN "execute" ELSE "none", r.ok, 0, <<>>)
        /\ clock' = clock + 1
        /\ UNCHANGED <<segments, conn>>
        /\ UnchangedJob

GetSpeakersWithEmbeddings ==
    \E rows \in get_speakers_with_embeddings(speakers) :
        /\ clock < MaxOps
        /\ last' = Call("get_speakers_with_embeddings", None, None, NoPkg, "none",
                        TRUE, 0, rows)
        /\ clock' = clock + 1
        /\ UNCHANGED <<speakers, segments, conn>>
        /\ UnchangedJob

\* routes.py merge_speakers (POST /api/speakers/merge): the response status
\* and the speakers table it leaves. fault names the call that raises, if any.
api_merge_speakers(tbl, from_speaker, to_speaker, now, fault) ==
    IF from_speaker = "" \/ to_speaker = "" THEN [status |-> 400, tbl |-> tbl]
    ELSE IF from_speaker = to_speaker THEN [status |-> 400, tbl |-> tbl]
    ELSE IF fault = "get_speaker" THEN [status |-> 500, tbl |-> tbl]
    ELSE LET target_speaker == get_speaker(tbl, to_speaker)
         IN  IF ~target_speaker.found THEN [status |-> 404, tbl |-> tbl]
             ELSE LET r == update_speaker_name(tbl, from_speaker, target_speaker.name,
                                               now, fault = "update_speaker_name")
                  IN  IF r.ok THEN [status |-> 200, tbl |-> r.tbl]
                      ELSE [status |-> 500, tbl |-> r.tbl]

\* routes.py api_speaker, method DELETE: answers success, deletes nothing
api_speaker_DELETE(tbl, speaker_id) == [status |-> 200, tbl |-> tbl]

ApiMergeSpeakers ==
    \E c \in ApiMergeCalls :
      LET from_speaker == c[1]  to_speaker == c[2]  fault == c[3] IN
        /\ clock < MaxOps
        /\ Locked => fault # "none"
        /\ LET r == api_merge_speakers(speakers, from_speaker, to_speaker, clock, fault)
           IN  /\ speakers' = r.tbl
               /\ last' = Call("api_merge_speakers", from_speaker, to_speaker, NoPkg,
                               fault, r.status = 200, r.status, <<>>)
        /\ clock' = clock + 1
        /\ UNCHANGED <<segments, conn>>
        /\ UnchangedJob

ApiSpeakerDelete ==
    \E speaker_id \in SpeakerIds :
        /\ clock < MaxOps
        /\ LET r == api_speaker_DELETE(speakers, speaker_id)
           IN  /\ speakers' = r.tbl
               /\ last' = Call("api_speaker_DELETE", speaker_id, None, NoPkg,
                               "none", r.status = 200, r.status, <<>>)
        /\ clock' = clock + 1
        /\ UNCHANGED <<segments, conn>>
        /\ UnchangedJob

\* A call of database_updates.py ends: with commit (raises = FALSE) or in its
\* except branch, whose handler decides what is left committed.
EndCall(op, after, fault) ==
    /\ speakers' = after.speakers
    /\ segments' = after.segments
    /\ last' = Call(op, conn.a, conn.b, NoPkg, fault, fault = "none", 0, <<>>)
    /\ conn' = IdleConn
    /\ clock' = clock + 1
    /\ UnchangedJob

Step(pc, working_speakers, working_segments) ==
    /\ conn' = [conn EXCEPT !.pc = pc, !.speakers = working_speakers,
                            !.segments = working_segments]
    /\ UNCHANGED <<speakers, segments, last, clock>>
    /\ UnchangedJob

\* merge_speakers, first statement: UPDATE segments (opens the transaction)
MergeSpeakersUpdate ==
    \E from_speaker_id \in SpeakerIds, to_speaker_id \in SpeakerIds, raises \in BOOLEAN :
        /\ clock < MaxOps
        /\ conn.pc = "idle"
        /\ IF raises
           THEN /\ speakers' = merge_speakers_except(
                                  [conn EXCEPT !.speakers = speakers, !.segments = segments],
                                  Committed).speakers
                /\ segments' = merge_speakers_except(
                                  [conn EXCEPT !.speakers = speakers, !.segments = segments],
                                  Committed).segments
                /\ last' = Call("merge_speakers", from_speaker_id, to_speaker_id, NoPkg,
                                "update_segments", FALSE, 0, <<>>)
                /\ conn' = IdleConn
                /\ clock' = clock + 1
                /\ UnchangedJob
           ELSE /\ conn' = [pc |-> "merge_updated", a |-> from_speaker_id,
                            b |-> to_speaker_id, speakers |-> speakers,
                            segments |-> SqlReassignSegments(segments, from_speaker_id,
                                                             to_speaker_id)]
                /\ UNCHANGED <<speakers, segments, last, clock>>
                /\ UnchangedJob

\* merge_speakers, second statement: DELETE FROM speakers
MergeSpeakersDelete ==
    \E raises \in BOOLEAN :
        /\ conn.pc = "merge_updated"
        /\ IF raises
           THEN EndCall("merge_speakers", merge_speakers_except(conn, Committed),
                        "delete_speaker")
           ELSE Step("merge_deleted", SqlDeleteSpeaker(conn.speakers, conn.a), conn.segments)

\* merge_speakers: self.conn.commit(); return True
MergeSpeakersCommit ==
    \E raises \in BOOLEAN :
        /\ conn.pc = "merge_deleted"
        /\ IF raises
           THEN EndCall("merge_speakers", merge_speakers_except(conn, Committed), "commit")
           ELSE EndCall("merge_speakers", ConnCommit(conn, Committed), "none")

\* delete_speaker, first statement: DELETE FROM segments (opens the transaction)
DeleteSpeakerSegments ==
    \E speaker_id \in SpeakerIds, raises \in BOOLEAN :
        /\ clock < MaxOps
        /\ conn.pc = "idle"
        /\ IF raises
           THEN /\ speakers' = delete_speaker_except(
                                  [conn EXCEPT !.speakers = speakers, !.segments = segments],
                                  Committed).speakers
                /\ segments' = delete_speaker_except(
                                  [conn EXCEPT !.speakers = speakers, !.segments = segments],
                                  Committed).segments
                /\ last' = Call("delete_speaker", speaker_id, None, NoPkg,
                                "delete_segments", FALSE, 0, <<>>)
                /\ conn' = IdleConn
                /\ clock' = clock + 1
                /\ UnchangedJob
           ELSE /\ conn' = [pc |-> "delete_segments_done", a |-> speaker_id, b |-> None,
                            speakers |-> speakers,
                            segments |-> SqlDeleteSegments(segments, speaker_id)]
                /\ UNCHANGED <<speakers, segments, last, clock>>
                /\ UnchangedJob

\* delete_speaker, second statement: DELETE FROM speakers
DeleteSpeakerRow ==
    \E raises \in BOOLEAN :
        /\ conn.pc = "delete_segments_done"
        /\ IF raises
           THEN EndCall("delete_speaker", delete_speaker_except(conn, Committed),
                        "delete_speaker")
           ELSE Step("delete_speaker_done", SqlDeleteSpeaker(conn.speakers, conn.a),
                     conn.segments)

\* delete_speaker: self.conn.commit(); return True
DeleteSpeakerCommit ==
    \E raises \in BOOLEAN :
        /\ conn.pc = "delete_speaker_done"
        /\ IF raises
           THEN EndCall("delete_speaker", delete_speaker_except(conn, Committed), "commit")
           ELSE EndCall("delete_speaker", ConnCommit(conn, Committed), "none")

\* A row of table segments is written for a speaker of the registry (by a
\* connection of its own, so not while self.conn holds the write lock).
InsertSegment ==
    \E r \in speakers :
      LET k == Cardinality(segments) + 1 IN
        /\ ~Locked
        /\ k <= MaxSegRows
        /\ segments' = segments \cup {[seg |-> k, speaker_id |-> r.id]}
        /\ UNCHANGED <<speakers, conn, last, clock>>
        /\ UnchangedJob

NoCall == Call("init_db", None, None, NoPkg, "none", TRUE, 0, <<>>)

\* Database.__init__ / init_db on a new file: empty tables
InitRegistry ==
    /\ speakers = {}
    /\ segments = {}
    /\ conn = IdleConn
    /\ last = NoCall
    /\ clock = 0
    /\ job_segments = <<>>
    /\ known_speakers = <<>>
    /\ query_embedding = <<>>
    /\ match_result = [done |-> FALSE]
    /\ calls = <<>>
    /\ pipeline = [pc |-> "idle"]
    /\ files = {}
    /\ pure_call = [done |-> FALSE]

NextRegistry ==
    \/ SaveSpeaker
    \/ UpdateSpeakerName
    \/ GetSpeakersWithEmbeddings
    \/ ApiMergeSpeakers
    \/ ApiSpeakerDelete
    \/ MergeSpeakersUpdate
    \/ MergeSpeakersDelete
    \/ MergeSpeakersCommit
    \/ DeleteSpeakerSegments
    \/ DeleteSpeakerRow
    \/ DeleteSpeakerCommit
    \/ InsertSegment

SpecRegistry == InitRegistry /\ [][NextRegistry]_vars

(***************************************************************************)
(* speaker_recognition.py: match_speakers.                                 *)
(* Similarities are kept exact: dot / sqrt(nn) with integers dot and nn,   *)
(* nn = 0 standing for the nan that a zero vector gives.                   *)
(***************************************************************************)
EMBEDDING_DIMENSION == 192

\* 0.6, as 3 / sqrt(25)
SIMILARITY_THRESHOLD == [dot |-> 3, nn |-> 25]

\* the literal 0 that best_similarity starts from
ZeroSimilarity == [dot |-> 0, nn |-> 1]

IsNan(s) == s.nn = 0

\* s > t on floats: False when either side is nan
SimGT(s, t) ==
    /\ ~IsNan(s) /\ ~IsNan(t)
    /\ IF s.dot >= 0 /\ t.dot < 0 THEN TRUE
       ELSE IF s.dot < 0 /\ t.dot >= 0 THEN FALSE
       ELSE IF s.dot >= 0 THEN s.dot * s.dot * t.nn > t.dot * t.dot * s.nn
       ELSE s.dot * s.dot * t.nn < t.dot * t.dot * s.nn

Zeros(n) == [i \in 1..n |-> 0]

\* normalize_embedding that keeps the last components of a longer vector
normalize_embedding_keeping_tail(embedding) ==
    IF Len(embedding) = EMBEDDING_DIMENSION THEN embedding
    ELSE IF Len(embedding) > EMBEDDING_DIMENSION
         THEN SubSeq(embedding, Len(embedding) - EMBEDDING_DIMENSION + 1, Len(embedding))
         ELSE embedding \o Zeros(EMBEDDING_DIMENSION - Len(embedding))

\* SpeakerRecognition.normalize_embedding: keep, truncate, or pad with zeros
normalize_embedding(embedding) ==
    IF Len(embedding) = EMBEDDING_DIMENSION THEN embedding
    ELSE IF Len(embedding) > EMBEDDING_DIMENSION
         THEN SubSeq(embedding, 1, EMBEDDING_DIMENSION)
         ELSE embedding \o Zeros(EMBEDDING_DIMENSION - Len(embedding))

\* normalize_embedding(known_embedding) raises: np.concatenate of an array
\* of two dimensions, shorter than EMBEDDING_DIMENSION, with the zeros of one
\* dimension is a ValueError
NormalizeRaises(known) ==
    known.ndim # 1 /\ Len(known.embedding) < EMBEDDING_DIMENSION

\* scipy's cosine(u, v) raises ValueError unless both are vectors
CosineRaises(known) == known.ndim # 1

RECURSIVE SumProducts(_, _, _)
\* the sum of u[i] * v[i] for i in idx
SumProducts(u, v, idx) ==
    IF idx = {} THEN 0
    ELSE LET i == CHOOSE k \in idx : TRUE
         IN  u[i] * v[i] + SumProducts(u, v, idx \ {i})

\* np.dot(u, v) of two vectors of one length: the zero products add nothing
Dot(u, v) == SumProducts(u, v, {i \in 1..Len(u) : u[i] # 0 /\ v[i] # 0})

\* 1 - scipy.spatial.distance.cosine(u, v) = u.v / sqrt(u.u * v.v)
CosineSimilarity(u, v) == [dot |-> Dot(u, v), nn |-> Dot(u, u) * Dot(v, v)]

\* a segment dict: keys holds the keys present, the other fields their values
Segment(start, end, text, speaker) ==
    [keys |-> {"start", "end", "text"} \cup (IF speaker = None THEN {} ELSE {"speaker"}),
     start |-> start, end |-> end, text |-> text, speaker |-> speaker,
     original_speaker |-> None, auto_matched |-> FALSE,
     match_confidence |-> ZeroSimilarity]

\* segment.get('speaker')
GetSpeaker(segment) == IF "speaker" \in segment.keys THEN segment.speaker ELSE None

RECURSIVE GroupLabels(_, _, _)
\* the grouping that takes every speaker value for a label to match
GroupLabels_any_label(segs, i, acc) ==
    IF i > Len(segs) THEN acc
    ELSE LET speaker == GetSpeaker(segs[i])
         IN  IF /\ speaker # None
                /\ \A j \in DOMAIN acc : acc[j] # speaker
             THEN GroupLabels(segs, i + 1, Append(acc, speaker))
             ELSE GroupLabels(segs, i + 1, acc)

\* the keys of speaker_segments in insertion order: the labels starting with
\* SPEAKER_, in order of first appearance
GroupLabels(segs, i, acc) ==
    IF i > Len(segs) THEN acc
    ELSE LET speaker == GetSpeaker(segs[i])
         IN  IF /\ speaker # None
                /\ StartsWith(speaker, "SPEAKER_")
                /\ \A j \in DOMAIN acc : acc[j] # speaker
             THEN GroupLabels(segs, i + 1, Append(acc, speaker))
             ELSE GroupLabels(segs, i + 1, acc)

\* "if best_similarity > Config.SIMILARITY_THRESHOLD" with >= for >
ExceedsThreshold_inclusive(best_similarity) ==
    ~IsNan(best_similarity) /\ ~SimGT(SIMILARITY_THRESHOLD, best_similarity)

\* if best_similarity > Config.SIMILARITY_THRESHOLD
ExceedsThreshold(best_similarity) == SimGT(best_similarity, SIMILARITY_THRESHOLD)

RECURSIVE CompareKnown(_, _, _, _)
\* the loop over known_speakers: best_match and best_similarity after it
CompareKnown(embedding, known, i, best) ==
    IF i > Len(known) THEN best
    ELSE LET known_emb  == normalize_embedding(known[i].embedding)
             similarity == CosineSimilarity(embedding, known_emb)
         IN  IF NormalizeRaises(known[i])
             THEN \* line 130 is outside the try: the exception leaves the loop
                  [best EXCEPT !.raised = TRUE]
             ELSE IF CosineRaises(known[i])
             THEN \* "except Exception as e: ... continue"
                  CompareKnown(embedding, known, i + 1, best)
             ELSE CompareKnown(embedding, known, i + 1,
                      IF SimGT(similarity, best.best_similarity)
                      THEN [best_similarity |-> similarity, best_match |-> known[i].name,
                            raised |-> FALSE]
                      ELSE best)

RECURSIVE ProcessLabels(_, _, _, _, _, _)
\* the loop over speaker_segments: embeddings[label] is what compute_embedding
\* returned for the label (an array or None). best_similarity is the one variable of the function
\* body: it holds the last processed label's value when the loop ends.
ProcessLabels(labels, i, embeddings, known, speaker_mapping, best_similarity) ==
    IF i > Len(labels)
    THEN [speaker_mapping |-> speaker_mapping, best_similarity |-> best_similarity,
          raised |-> FALSE]
    ELSE LET speaker_id == labels[i]
             embedding  == normalize_embedding(embeddings[speaker_id].v)
             best == CompareKnown(embedding, known, 1,
                         [best_similarity |-> ZeroSimilarity, best_match |-> None,
                          raised |-> FALSE])
         IN  IF embeddings[speaker_id].is_none
             THEN \* "if embedding is None: continue"
                  ProcessLabels(labels, i + 1, embeddings, known,
                                speaker_mapping, best_similarity)
             ELSE IF best.raised
             THEN [speaker_mapping |-> speaker_mapping, best_similarity |-> best_similarity,
                   raised |-> TRUE]
             ELSE ProcessLabels(labels, i + 1, embeddings, known,
                      IF ExceedsThreshold(best.best_similarity)
                      THEN [l \in DOMAIN speaker_mapping \cup {speaker_id} |->
                              IF l = speaker_id THEN best.best_match
                              ELSE speaker_mapping[l]]
                      ELSE speaker_mapping,
                      best.best_similarity)

EmptyMapping == [l \in {} |-> None]

\* the apply loop that overwrites speaker without keeping the raw label
ApplyMapping_dropping_original(segs, speaker_mapping, best_similarity) ==
    [i \in DOMAIN segs |->
        LET speaker == GetSpeaker(segs[i])
        IN  IF speaker \in DOMAIN speaker_mapping
            THEN [segs[i] EXCEPT
                    !.keys = @ \cup {"auto_matched", "match_confidence"},
                    !.speaker = speaker_mapping[speaker],
                    !.auto_matched = TRUE,
                    !.match_confidence = best_similarity]
            ELSE segs[i]]

\* "Apply mapping to all segments"
ApplyMapping(segs, speaker_mapping, best_similarity) ==
    [i \in DOMAIN segs |->
        LET speaker == GetSpeaker(segs[i])
        IN  IF speaker \in DOMAIN speaker_mapping
            THEN [segs[i] EXCEPT
                    !.keys = @ \cup {"original_speaker", "auto_matched", "match_confidence"},
                    !.original_speaker = speaker,
                    !.speaker = speaker_mapping[speaker],
                    !.auto_matched = TRUE,
                    !.match_confidence = best_similarity]
            ELSE segs[i]]

\* match_speakers whose fast path returns an empty segment list
match_speakers_fast_path_empty(segs, known, embeddings) ==
    IF known = <<>>
    THEN [raised |-> FALSE, segments |-> <<>>, speaker_mapping |-> EmptyMapping]
    ELSE LET labels == GroupLabels(segs, 1, <<>>)
             r == ProcessLabels(labels, 1, embeddings, known, EmptyMapping, ZeroSimilarity)
         IN  IF r.raised
             THEN [raised |-> TRUE, segments |-> segs, speaker_mapping |-> EmptyMapping]
             ELSE [raised |-> FALSE,
                   segments |-> ApplyMapping(segs, r.speaker_mapping, r.best_similarity),
                   speaker_mapping |-> r.speaker_mapping]

\* SpeakerRecognition.match_speakers: (segments, speaker_mapping), or an
\* exception (raised): the segments are then as they were given
match_speakers(segs, known, embeddings) ==
    IF known = <<>>
    THEN [raised |-> FALSE, segments |-> segs, speaker_mapping |-> EmptyMapping]
    ELSE LET labels == GroupLabels(segs, 1, <<>>)
             r == ProcessLabels(labels, 1, embeddings, known, EmptyMapping, ZeroSimilarity)
         IN  IF r.raised
             THEN [raised |-> TRUE, segments |-> segs, speaker_mapping |-> EmptyMapping]
             ELSE [raised |-> FALSE,
                   segments |-> ApplyMapping(segs, r.speaker_mapping, r.best_similarity),
                   speaker_mapping |-> r.speaker_mapping]

(***************************************************************************)
(* Inputs of match_speakers.                                               *)
(***************************************************************************)
\* segment['speaker'] of a diarized segment: a raw label, a name, or no key
SegmentSpeakers == {"SPEAKER_00", "SPEAKER_01", "Alice", None}

RECURSIVE SeqsUpTo(_, _)
\* the sequences over S of length at most n
SeqsUpTo(S, n) ==
    IF n = 0 THEN {<<>>}
    ELSE LET shorter == SeqsUpTo(S, n - 1)
         IN  shorter \cup {Append(q, x) : q \in {t \in shorter : Len(t) = n - 1}, x \in S}

\* segment i of a job lasts from second 2(i-1) to second 2i-1; times are in
\* tenths of a second
JobSegments(spk) == [i \in DOMAIN spk |-> Segment(20 * (i - 1), 20 * i - 10, "w", spk[i])]

\* a stored embedding one component longer than EMBEDDING_DIMENSION
LongEmbedding == <<3, 4>> \o Zeros(EMBEDDING_DIMENSION - 2) \o <<7>>

\* a known_speakers tuple whose embedding is an array of one dimension
Known(id, name, embedding) ==
    [id |-> id, name |-> name, embedding |-> embedding, ndim |-> 1]

\* a known_speakers tuple whose embedding is an array of shape (rows, cols):
\* a sequence of rows, so that Len is what len() gives
Known2D(id, name, rows, cols) ==
    [id |-> id, name |-> name, embedding |-> [i \in 1..rows |-> Zeros(cols)], ndim |-> 2]

\* lists that get_speakers_with_embeddings can return: renamed identities,
\* with the embeddings the database file holds (of any length, a zero vector
\* included)
KnownLists ==
    {<<>>,
     <<Known("SPEAKER_00", "Alice", <<1, 0>>)>>,
     <<Known("SPEAKER_00", "Alice", LongEmbedding)>>,
     <<Known("SPEAKER_00", "Alice", <<1, 0>>), Known("SPEAKER_01", "Bob", <<4, 3>>)>>,
     <<Known("SPEAKER_00", "Alice", LongEmbedding), Known("SPEAKER_01", "Bob", <<0, 0>>)>>,
     <<Known("SPEAKER_01", "Bob", <<4, 3>>), Known("SPEAKER_00", "Alice", <<1, 0>>)>>,
     <<Known("SPEAKER_00", "Alice", <<1, 0>>), Known("SPEAKER_01", "Bob", <<1, 0>>)>>}

\* what compute_embedding can return for a label: an array of
\* EMBEDDING_DIMENSION components, of either sign
QueryEmbeddings ==
    {Array(v \o Zeros(EMBEDDING_DIMENSION - Len(v))) :
        v \in {<<1, 0>>, <<3, 4>>, <<0, 1>>, <<0 - 1, 0>>}}

LabelSet(segs) == {GroupLabels(segs, 1, <<>>)[i] : i \in DOMAIN GroupLabels(segs, 1, <<>>)}

UnchangedRegistry == UNCHANGED <<speakers, segments, conn, last, clock>>

\* one call of match_speakers(segments, audio_path, known_speakers, ...)
MatchSpeakers ==
    /\ ~match_result.done
    /\ \E embeddings \in [IF known_speakers = <<>> THEN {} ELSE LabelSet(job_segments)
                            -> QueryEmbeddings] :
          LET r == match_speakers(job_segments, known_speakers, embeddings)
          IN  /\ match_result' = [done |-> TRUE, raised |-> r.raised,
                                  segments |-> r.segments,
                                  speaker_mapping |-> r.speaker_mapping]
              /\ query_embedding' = embeddings
    /\ UNCHANGED <<job_segments, known_speakers>>
    /\ UNCHANGED <<calls, pipeline, files, pure_call>>
    /\ UnchangedRegistry

InitMatch ==
    /\ speakers = {}
    /\ segments = {}
    /\ conn = IdleConn
    /\ last = NoCall
    /\ clock = 0
    /\ job_segments \in {JobSegments(spk) : spk \in SeqsUpTo(SegmentSpeakers, MaxSegments)}
    /\ known_speakers \in KnownLists
    /\ query_embedding = <<>>
    /\ match_result = [done |-> FALSE]
    /\ calls = <<>>
    /\ pipeline = [pc |-> "idle"]
    /\ files = {}
    /\ pure_call = [done |-> FALSE]

NextMatch == MatchSpeakers

SpecMatch == InitMatch /\ [][NextMatch]_vars

(***************************************************************************)
(* match_speakers on known lists holding an embedding that is not a vector *)
(* of floats: an array of two dimensions, on which normalize_embedding or  *)
(* cosine raises.                                                          *)
(***************************************************************************)
FaultyKnownLists ==
    {<<Known2D("SPEAKER_00", "Alice", EMBEDDING_DIMENSION, 2),
       Known("SPEAKER_01", "Bob", <<4, 3>>)>>,
     <<Known("SPEAKER_01", "Bob", <<4, 3>>),
       Known2D("SPEAKER_00", "Alice", EMBEDDING_DIMENSION + 1, 2)>>,
     <<Known2D("SPEAKER_00", "Alice", EMBEDDING_DIMENSION, 2)>>,
     <<Known2D("SPEAKER_00", "Alice", 1, EMBEDDING_DIMENSION),
       Known("SPEAKER_01", "Bob", <<4, 3>>)>>,
     <<Known("SPEAKER_01", "Bob", <<4, 3>>),
       Known2D("SPEAKER_00", "Alice", 1, EMBEDDING_DIMENSION)>>}

InitMatchFaults ==
    /\ speakers = {}
    /\ segments = {}
    /\ conn = IdleConn
    /\ last = NoCall
    /\ clock = 0
    /\ job_segments \in {JobSegments(spk) : spk \in SeqsUpTo(SegmentSpeakers, MaxSegments)}
    /\ known_speakers \in FaultyKnownLists
    /\ query_embedding = <<>>
    /\ match_result = [done |-> FALSE]
    /\ calls = <<>>
    /\ pipeline = [pc |-> "idle"]
    /\ files = {}
    /\ pure_call = [done |-> FALSE]

NextMatchFaults == MatchSpeakers

SpecMatchFaults == InitMatchFaults /\ [][NextMatchFaults]_vars

(***************************************************************************)
(* database.py: save_speaker called by parallel jobs. Each call has its    *)
(* own sqlite3 connection; its SELECT, its UPDATE or INSERT, and its       *)
(* commit are separate steps, and the statements of other calls can run    *)
(* between them. The UPDATE or INSERT opens the call's transaction and     *)
(* takes the database's write lock, held until the commit.                 *)
(***************************************************************************)
Jobs == {"job1", "job2"}

\* appearance_count of the row of id, 0 when there is none
CountOf(tbl, id) == IF HasRow(tbl, id) THEN Row(tbl, id).appearance_count ELSE 0

\* a job that has not called save_speaker yet; count_before is not a variable
\* of the code: it remembers the count the call found when it started
IdleCall ==
    [pc |-> "idle", speaker_id |-> None, pkg |-> NoPkg, exists |-> FALSE,
     tbl |-> {}, ok |-> FALSE, error |-> "none", count_before |-> 0]

\* UPDATE speakers SET appearance_count = appearance_count + 1 WHERE id = ?
SqlIncrementCount(tbl, speaker_id) ==
    {IF r.id = speaker_id THEN [r EXCEPT !.appearance_count = @ + 1] ELSE r : r \in tbl}

\* the row of save_speaker's INSERT
NewSpeakerRow(speaker_id, pkg, now) ==
    [id |-> speaker_id, name |-> speaker_id, embedding |-> EmbeddingBlob(pkg.embedding),
     clip_path |-> pkg.clip_path, transcript_sample |-> pkg.transcript_sample,
     created_at |-> now, appearance_count |-> 1]

\* another call's transaction holds the write lock
WriteLockedFor(j) == \E k \in Jobs \ {j} : calls[k].pc = "executed"

\* conn = sqlite3.connect(self.db_path)
SaveConnect(j) ==
    /\ calls[j].pc = "idle"
    /\ \E speaker_id \in SpeakerIds, pkg \in SavePkgs :
          calls' = [calls EXCEPT ![j] =
                       [@ EXCEPT !.pc = "connected", !.speaker_id = speaker_id,
                                 !.pkg = pkg,
                                 !.count_before = CountOf(speakers, speaker_id)]]
    /\ UNCHANGED <<speakers, segments, conn, last, clock>>
    /\ UNCHANGED <<job_segments, known_speakers, query_embedding, match_result>>
    /\ UNCHANGED <<pipeline, files, pure_call>>

\* c.execute("SELECT id FROM speakers WHERE id = ?"); exists = c.fetchone()
SaveSelect(j) ==
    /\ calls[j].pc = "connected"
    /\ calls' = [calls EXCEPT ![j] =
                    [@ EXCEPT !.pc = "selected",
                              !.exists = HasRow(speakers, calls[j].speaker_id)]]
    /\ UNCHANGED <<speakers, segments, conn, last, clock>>
    /\ UNCHANGED <<job_segments, known_speakers, query_embedding, match_result>>
    /\ UNCHANGED <<pipeline, files, pure_call>>

\* if exists: UPDATE ... else: INSERT ...  (an IntegrityError of the INSERT is
\* caught: return False)
SaveExecute(j) ==
    /\ calls[j].pc = "selected"
    /\ ~WriteLockedFor(j)
    /\ LET c   == calls[j]
           ins == SqlInsert(speakers, NewSpeakerRow(c.speaker_id, c.pkg, clock))
       IN  calls' = [calls EXCEPT ![j] =
              IF c.exists
              THEN [c EXCEPT !.pc = "executed",
                             !.tbl = SqlIncrementCount(speakers, c.speaker_id)]
              ELSE IF ins.ok
                   THEN [c EXCEPT !.pc = "executed", !.tbl = ins.tbl]
                   ELSE [c EXCEPT !.pc = "returned", !.ok = FALSE,
                                  !.error = "IntegrityError"]]
    /\ UNCHANGED <<speakers, segments, conn, last, clock>>
    /\ UNCHANGED <<job_segments, known_speakers, query_embedding, match_result>>
    /\ UNCHANGED <<pipeline, files, pure_call>>

\* the statement waits for the write lock and gives up: OperationalError
\* "database is locked", caught: return False
SaveLocked(j) ==
    /\ calls[j].pc = "selected"
    /\ WriteLockedFor(j)
    /\ calls' = [calls EXCEPT ![j] =
                    [@ EXCEPT !.pc = "returned", !.ok = FALSE, !.error = "locked"]]
    /\ UNCHANGED <<speakers, segments, conn, last, clock>>
    /\ UNCHANGED <<job_segments, known_speakers, query_embedding, match_result>>
    /\ UNCHANGED <<pipeline, files, pure_call>>

\* conn.commit(); return True
SaveCommit(j) ==
    /\ calls[j].pc = "executed"
    /\ speakers' = calls[j].tbl
    /\ calls' = [calls EXCEPT ![j] = [@ EXCEPT !.pc = "returned", !.ok = TRUE]]
    /\ UNCHANGED <<segments, conn, last, clock>>
    /\ UNCHANGED <<job_segments, known_speakers, query_embedding, match_result>>
    /\ UNCHANGED <<pipeline, files, pure_call>>

\* the registry is empty, or holds SPEAKER_00 as an earlier job saved it
InitConcurrent ==
    /\ speakers \in {{}, save_speaker({}, "SPEAKER_00", "a.mp3", "hello",
                                      Array(<<1, 0>>), 0, FALSE).tbl}
    /\ segments = {}
    /\ conn = IdleConn
    /\ last = NoCall
    /\ clock = 0
    /\ job_segments = <<>>
    /\ known_speakers = <<>>
    /\ query_embedding = <<>>
    /\ match_result = [done |-> FALSE]
    /\ calls = [j \in Jobs |-> IdleCall]
    /\ pipeline = [pc |-> "idle"]
    /\ files = {}
    /\ pure_call = [done |-> FALSE]

NextConcurrent ==
    \/ \E j \in Jobs : SaveConnect(j)
    \/ \E j \in Jobs : SaveSelect(j)
    \/ \E j \in Jobs : SaveExecute(j)
    \/ \E j \in Jobs : SaveLocked(j)
    \/ \E j \in Jobs : SaveCommit(j)

SpecConcurrent == InitConcurrent /\ [][NextConcurrent]_vars

(***************************************************************************)
(* Functions without side effects, each applied once to arguments drawn    *)
(* from bounded sets: pure_call holds the arguments, then the result.      *)
(***************************************************************************)
UnchangedButPureCall ==
    /\ UNCHANGED <<speakers, segments, conn, last, clock>>
    /\ UNCHANGED <<job_segments, known_speakers, query_embedding, match_result>>
    /\ UNCHANGED <<calls, pipeline, files>>

\* the call of fn waiting in pure_call returns result
Returns(fn, result) ==
    /\ ~pure_call.done
    /\ pure_call.fn = fn
    /\ pure_call' = [pure_call EXCEPT !.done = TRUE, !.result = result]
    /\ UnchangedButPureCall

\* a vector of n components in -2..2, different for different a and b
Vector(n, a, b) == [i \in 1..n |-> ((a * i + b) % 5) - 2]

\* lengths around 0 and around EMBEDDING_DIMENSION
VectorLengths ==
    (0..MaxExtraLen)
    \cup ((EMBEDDING_DIMENSION - MaxExtraLen)..(EMBEDDING_DIMENSION + MaxExtraLen))

NormalizeCalls ==
    {[done |-> FALSE, fn |-> "normalize_embedding", result |-> <<>>,
      embedding |-> Vector(n, a, b)] : n \in VectorLengths, a \in 1..2, b \in 0..4}

NormalizeEmbedding ==
    /\ pure_call.fn = "normalize_embedding"
    /\ Returns("normalize_embedding", normalize_embedding(pure_call.embedding))

\* one element of the list full_text: "\n[speaker]: text", or text alone
HeaderPiece(speaker, text) == [header |-> TRUE, speaker |-> speaker, text |-> text]

TextPiece(text) == [header |-> FALSE, speaker |-> None, text |-> text]

\* seg.get('speaker', 'Unknown')
GetSpeakerOrUnknown(seg) == IF "speaker" \in seg.keys THEN seg.speaker ELSE "Unknown"

RECURSIVE RenderFrom(_, _, _, _)
\* the loop of _create_speaker_text that puts a header on every segment
RenderFrom_header_each(segs, i, current_speaker, full_text) ==
    IF i > Len(segs) THEN full_text
    ELSE RenderFrom(segs, i + 1, current_speaker,
                    Append(full_text, HeaderPiece(GetSpeakerOrUnknown(segs[i]), segs[i].text)))

\* the loop of _create_speaker_text from segment i on
RenderFrom(segs, i, current_speaker, full_text) ==
    IF i > Len(segs) THEN full_text
    ELSE LET speaker == GetSpeakerOrUnknown(segs[i])
             text    == segs[i].text
         IN  IF speaker # current_speaker
             THEN RenderFrom(segs, i + 1, speaker, Append(full_text, HeaderPiece(speaker, text)))
             ELSE RenderFrom(segs, i + 1, current_speaker, Append(full_text, TextPiece(text)))

\* TranscriptionService._create_speaker_text: the pieces that ' '.join puts
\* in one string, in order
create_speaker_text(segs) == RenderFrom(segs, 1, None, <<>>)

RenderCalls ==
    {[done |-> FALSE, fn |-> "_create_speaker_text", result |-> <<>>,
      segments |-> JobSegments(spk)] : spk \in SeqsUpTo(SegmentSpeakers, MaxSegments)}

CreateSpeakerText ==
    /\ pure_call.fn = "_create_speaker_text"
    /\ Returns("_create_speaker_text", create_speaker_text(pure_call.segments))

(***************************************************************************)
(* audio_processing.py: find_best_speaker_segment. Times are in tenths of  *)
(* a second.                                                               *)
(***************************************************************************)
Seconds(n) == 10 * n

TenWords == "one two three four five six seven eight nine ten"

TwentyWords == "one two three four five six seven eight nine ten one two three four five six seven eight nine ten"

\* len(text.strip().split()) of the texts the model uses
WordCount(text) ==
    CASE text = ""          -> 0
      [] text = "w"         -> 1
      [] text = TenWords    -> 10
      [] text = TwentyWords -> 20

\* the quality score of one segment
Score(seg) ==
    LET duration == seg.end - seg.start
        words    == WordCount(seg.text)
    IN  (IF Seconds(5) <= duration /\ duration <= Seconds(10) THEN 10
         ELSE IF Seconds(3) <= duration /\ duration <= Seconds(15) THEN 5
         ELSE 0)
        + (IF words >= 10 THEN 5 ELSE 0)
        + (IF words >= 20 THEN 5 ELSE 0)
        - (IF duration < Seconds(2) \/ duration > Seconds(20) THEN 10 ELSE 0)

RECURSIVE FilterBySpeaker(_, _, _)
\* the filter that also takes the segments relabeled from the speaker
FilterBySpeaker_or_original(segs, speaker, i) ==
    IF i > Len(segs) THEN <<>>
    ELSE IF GetSpeaker(segs[i]) = speaker \/ segs[i].original_speaker = speaker
         THEN <<segs[i]>> \o FilterBySpeaker(segs, speaker, i + 1)
         ELSE FilterBySpeaker(segs, speaker, i + 1)

\* [s for s in segments if s.get('speaker') == speaker], from segment i on
FilterBySpeaker(segs, speaker, i) ==
    IF i > Len(segs) THEN <<>>
    ELSE IF GetSpeaker(segs[i]) = speaker
         THEN <<segs[i]>> \o FilterBySpeaker(segs, speaker, i + 1)
         ELSE FilterBySpeaker(segs, speaker, i + 1)

\* one step of a sort that puts x before the elements of equal score
InsertByScore_before_equal(sorted, x) ==
    LET before == {i \in DOMAIN sorted : Score(sorted[i]) > Score(x)}
        k      == Cardinality(before)
    IN  SubSeq(sorted, 1, k) \o <<x>> \o SubSeq(sorted, k + 1, Len(sorted))

\* one step of list.sort(key=score, reverse=True), a stable sort: x goes
\* after the elements of greater or equal score
InsertByScore(sorted, x) ==
    LET before == {i \in DOMAIN sorted : Score(sorted[i]) >= Score(x)}
        k      == Cardinality(before)
    IN  SubSeq(sorted, 1, k) \o <<x>> \o SubSeq(sorted, k + 1, Len(sorted))

RECURSIVE SortByScoreDesc(_, _, _)
SortByScoreDesc(segs, i, sorted) ==
    IF i > Len(segs) THEN sorted
    ELSE SortByScoreDesc(segs, i + 1, InsertByScore(sorted, segs[i]))

NoSegment == [found |-> FALSE, segment |-> Segment(0, 0, "", None)]

\* AudioProcessor.find_best_speaker_segment: the segment, or None
find_best_speaker_segment(segs, speaker) ==
    LET speaker_segments == FilterBySpeaker(segs, speaker, 1)
        scored_segments  == SortByScoreDesc(speaker_segments, 1, <<>>)
    IN  IF speaker_segments = <<>> THEN NoSegment
        ELSE [found |-> TRUE, segment |-> scored_segments[1]]

\* the shapes of the segments of the calls: speaker, duration, text
SegmentShapes ==
    {[speaker |-> "SPEAKER_00", duration |-> Seconds(5),      text |-> "w"],
     [speaker |-> "SPEAKER_00", duration |-> Seconds(15),     text |-> TenWords],
     [speaker |-> "SPEAKER_00", duration |-> Seconds(2) - 1,  text |-> TwentyWords],
     [speaker |-> "SPEAKER_00", duration |-> Seconds(20) + 1, text |-> "w"],
     [speaker |-> "SPEAKER_01", duration |-> Seconds(10),     text |-> TwentyWords],
     [speaker |-> None,         duration |-> Seconds(5),      text |-> "w"]}

\* segment i starts at second 30(i-1)
ShapedSegments(shapes) ==
    [i \in DOMAIN shapes |->
        Segment(Seconds(30) * (i - 1), Seconds(30) * (i - 1) + shapes[i].duration,
                shapes[i].text, shapes[i].speaker)]

FindBestCalls ==
    {[done |-> FALSE, fn |-> "find_best_speaker_segment", result |-> NoSegment,
      segments |-> ShapedSegments(shapes), speaker |-> speaker] :
        shapes \in SeqsUpTo(SegmentShapes, MaxSegments),
        speaker \in {"SPEAKER_00", "SPEAKER_01"}}

FindBestSpeakerSegment ==
    /\ pure_call.fn = "find_best_speaker_segment"
    /\ Returns("find_best_speaker_segment",
               find_best_speaker_segment(pure_call.segments, pure_call.speaker))

(***************************************************************************)
(* audio_processing.py: extract_speaker_clip. A file on disk is a record   *)
(* of its path and its size in bytes; times are in tenths of a second.     *)
(***************************************************************************)
MIN_CLIP_DURATION == 3

MAX_CLIP_DURATION == 15

\* the 0.2 seconds added on each side
ClipPadding == 2

\* the size in bytes a clip has to exceed
MinClipSize == 1000

Max(a, b) == IF a >= b THEN a ELSE b

Min(a, b) == IF a <= b THEN a ELSE b

FileExists(fs, path) == \E f \in fs : f.path = path

FileSize(fs, path) == (CHOOSE f \in fs : f.path = path).size

RemoveFile(fs, path) == {f \in fs : f.path # path}

\* ffmpeg -y path: the file is created or replaced
WriteFile(fs, path, size) == RemoveFile(fs, path) \cup {[path |-> path, size |-> size]}

\* the duration of a short clip raised to MIN_CLIP_DURATION
ClipDuration_raised_to_min(start, end) ==
    LET duration == (end + ClipPadding) - Max(0, start - ClipPadding)
    IN  IF duration > Seconds(MAX_CLIP_DURATION) THEN Seconds(MAX_CLIP_DURATION)
        ELSE IF duration < Seconds(MIN_CLIP_DURATION) THEN Seconds(MIN_CLIP_DURATION)
        ELSE duration

\* the duration handed to ffmpeg -t for the requested span
ClipDuration(start, end) ==
    LET duration == (end + ClipPadding) - Max(0, start - ClipPadding)
    IN  IF duration > Seconds(MAX_CLIP_DURATION) THEN Seconds(MAX_CLIP_DURATION)
        ELSE IF duration < Seconds(MIN_CLIP_DURATION)
             THEN Min(Seconds(MIN_CLIP_DURATION), duration)
        ELSE duration

\* f"{transcript_id}_{speaker_id}_{int(start)}.mp3" under SPEAKER_CLIPS_FOLDER
ClipPath(transcript_id, speaker_id, start) ==
    [folder |-> "speaker_clips", transcript_id |-> transcript_id,
     speaker_id |-> speaker_id, start |-> Max(0, start - ClipPadding) \div Seconds(1)]

NoPath == [folder |-> None, transcript_id |-> None, speaker_id |-> None, start |-> 0]

\* what subprocess.run(cmd) can do: raise (ffmpeg cannot be started), or
\* return an exit code, having written a file of some size or none
TranscoderOutcomes ==
    {[raises |-> TRUE, returncode |-> 0, wrote |-> FALSE, size |-> 0]}
    \cup {[raises |-> FALSE, returncode |-> rc, wrote |-> FALSE, size |-> 0] : rc \in {0, 1}}
    \cup {[raises |-> FALSE, returncode |-> rc, wrote |-> TRUE, size |-> size] :
             rc \in {0, 1}, size \in {0, MinClipSize, MinClipSize + 1}}

\* AudioProcessor.extract_speaker_clip with the transcoder behaving as tool:
\* the returned path or None, the command, and the files afterwards
extract_speaker_clip(fs, start, end, speaker_id, transcript_id, tool) ==
    LET clip_path == ClipPath(transcript_id, speaker_id, start)
        cmd       == [ss |-> Max(0, start - ClipPadding), t |-> ClipDuration(start, end),
                      clip_path |-> clip_path]
        written   == IF tool.wrote THEN WriteFile(fs, clip_path, tool.size) ELSE fs
    IN  IF tool.raises
        THEN [found |-> FALSE, path |-> NoPath, cmd |-> cmd, files |-> fs]
        ELSE IF tool.returncode = 0 /\ FileExists(written, clip_path)
             THEN IF FileSize(written, clip_path) > MinClipSize
                  THEN [found |-> TRUE, path |-> clip_path, cmd |-> cmd, files |-> written]
                  ELSE [found |-> FALSE, path |-> NoPath, cmd |-> cmd,
                        files |-> RemoveFile(written, clip_path)]
             ELSE [found |-> FALSE, path |-> NoPath, cmd |-> cmd, files |-> written]

\* requested spans: start and length in tenths of a second
ClipSpans ==
    {[start |-> start, end |-> start + length] :
        start \in {0, 1, 2, 3, Seconds(10)},
        length \in {0, 4, Seconds(3) - 5, Seconds(3) - 4, Seconds(3),
                    Seconds(15) - 4, Seconds(15) - 3, Seconds(20)}}

ExtractClipCalls ==
    {[done |-> FALSE, fn |-> "extract_speaker_clip",
      result |-> [found |-> FALSE, path |-> NoPath, cmd |-> <<>>, tool |-> <<>>],
      start |-> span.start, end |-> span.end,
      speaker_id |-> "SPEAKER_00", transcript_id |-> "t1"] : span \in ClipSpans}

ExtractSpeakerClip ==
    /\ ~pure_call.done
    /\ pure_call.fn = "extract_speaker_clip"
    /\ \E tool \in TranscoderOutcomes :
          LET r == extract_speaker_clip(files, pure_call.start, pure_call.end,
                                        pure_call.speaker_id, pure_call.transcript_id, tool)
          IN  /\ pure_call' = [pure_call EXCEPT
                                  !.done = TRUE,
                                  !.result = [found |-> r.found, path |-> r.path,
                                              cmd |-> r.cmd, tool |-> tool]]
              /\ files' = r.files
    /\ UNCHANGED <<speakers, segments, conn, last, clock>>
    /\ UNCHANGED <<job_segments, known_speakers, query_embedding, match_result>>
    /\ UNCHANGED <<calls, pipeline>>

\* what the embedding black box does in one call: get_speaker_model gives
\* no model, torchaudio.load raises, encode_batch raises, or encode_batch
\* returns an array that squeeze() turns into a vector of some length or
\* into a scalar (ndim 0); random is what np.random.randn would return
EmbeddingModelOutcomes ==
    {[failure |-> f, ndim |-> 1, native |-> <<>>, random |-> Vector(EMBEDDING_DIMENSION, a, 1)]
        : f \in {"model", "load", "encode"}, a \in 1..2}
    \cup {[failure |-> "none", ndim |-> 1, native |-> Vector(n, 1, 0),
           random |-> Vector(EMBEDDING_DIMENSION, 2, 1)] : n \in VectorLengths}
    \cup {[failure |-> "none", ndim |-> 0, native |-> <<>>,
           random |-> Vector(EMBEDDING_DIMENSION, 2, 1)]}

\* "Ensure correct dimension": cut to EMBEDDING_DIMENSION or pad with zeros
EnsureDimension(embedding_array) ==
    IF Len(embedding_array) = EMBEDDING_DIMENSION THEN embedding_array
    ELSE IF Len(embedding_array) > EMBEDDING_DIMENSION
         THEN SubSeq(embedding_array, 1, EMBEDDING_DIMENSION)
         ELSE embedding_array \o Zeros(EMBEDDING_DIMENSION - Len(embedding_array))

\* compute_embedding_speechbrain whose except branch returns None
compute_embedding_speechbrain_none_on_error(model) ==
    IF model.failure # "none" THEN [raised |-> FALSE, embedding |-> NoneArray]
    ELSE IF model.ndim = 0 THEN [raised |-> FALSE, embedding |-> NoneArray]
    ELSE [raised |-> FALSE, embedding |-> Array(EnsureDimension(model.native))]

\* SpeakerRecognition.compute_embedding_speechbrain: every exception of its
\* body (no model, load error, encode error, shape[0] of a scalar) ends in
\* "return np.random.randn(Config.EMBEDDING_DIMENSION)"
compute_embedding_speechbrain(model) ==
    IF model.failure # "none" THEN [raised |-> FALSE, embedding |-> Array(model.random)]
    ELSE IF model.ndim = 0 THEN [raised |-> FALSE, embedding |-> Array(model.random)]
    ELSE [raised |-> FALSE, embedding |-> Array(EnsureDimension(model.native))]

\* SpeakerRecognition.compute_embedding: try the SpeechBrain embedding,
\* "except Exception" fall back to a random embedding
compute_embedding(model) ==
    LET r == compute_embedding_speechbrain(model)
    IN  IF r.raised THEN [raised |-> FALSE, embedding |-> Array(model.random)]
        ELSE r

ComputeEmbeddingCalls ==
    {[done |-> FALSE, fn |-> "compute_embedding",
      result |-> [raised |-> FALSE, embedding |-> NoneArray, model |-> <<>>],
      start |-> 0, end |-> Seconds(6)]}

ComputeEmbedding ==
    /\ pure_call.fn = "compute_embedding"
    /\ \E model \in EmbeddingModelOutcomes :
          LET r == compute_embedding(model)
          IN  Returns("compute_embedding",
                      [raised |-> r.raised, embedding |-> r.embedding, model |-> model])

InitFunctions ==
    /\ speakers = {}
    /\ segments = {}
    /\ conn = IdleConn
    /\ last = NoCall
    /\ clock = 0
    /\ job_segments = <<>>
    /\ known_speakers = <<>>
    /\ query_embedding = <<>>
    /\ match_result = [done |-> FALSE]
    /\ calls = <<>>
    /\ pipeline = [pc |-> "idle"]
    /\ files = {}
    /\ pure_call \in NormalizeCalls \cup RenderCalls \cup FindBestCalls \cup ExtractClipCalls
                       \cup ComputeEmbeddingCalls

NextFunctions ==
    \/ NormalizeEmbedding
    \/ CreateSpeakerText
    \/ FindBestSpeakerSegment
    \/ ExtractSpeakerClip
    \/ ComputeEmbedding

SpecFunctions == InitFunctions /\ [][NextFunctions]_vars

(***************************************************************************)
(* transcription.py: transcribe_file, one action for each step that can    *)
(* fail or that touches the disk or the registry. pipeline holds the       *)
(* locals of the call; pc = "returned" or "raised" once it has ended.      *)
(***************************************************************************)
\* speakers_data: None, or the dict of _process_speakers
NoSpeakersData ==
    [present |-> FALSE, enabled |-> FALSE, has_error |-> FALSE,
     speakers |-> {}, speaker_count |-> 0, mappings |-> EmptyMapping]

\* {"enabled": True, "speakers": sorted(speakers), "speaker_count": len(speakers)}
EnabledSpeakersData(raw_speakers) ==
    [present |-> TRUE, enabled |-> TRUE, has_error |-> FALSE,
     speakers |-> raw_speakers, speaker_count |-> Cardinality(raw_speakers),
     mappings |-> EmptyMapping]

\* {"enabled": False, "error": str(e)}
ErrorSpeakersData ==
    [present |-> TRUE, enabled |-> FALSE, has_error |-> TRUE,
     speakers |-> {}, speaker_count |-> 0, mappings |-> EmptyMapping]

NoTranscript ==
    [present |-> FALSE, id |-> None, segments |-> <<>>, text |-> <<>>,
     speakers |-> NoSpeakersData]

\* f"{unique_id}_{timestamp}" of the one job of the model
TranscriptId == "t1"

\* input_path.rsplit('.', 1)[0] + '_converted.wav'
ConvertedPath(filepath) == [converted_from |-> filepath]

\* the uploaded file
UploadPath(filepath) == [upload |-> filepath]

\* wav_filepath = None
NoWavFile == [found |-> FALSE, path |-> ConvertedPath("")]

TranscriptPath(transcript_id) == [folder |-> "transcripts", transcript_id |-> transcript_id]

\* the call transcribe_file(filepath, unique_id, filename) before its first step
NewJob(filepath, is_wav, hf_token) ==
    [pc |-> "convert", filepath |-> filepath, is_wav |-> is_wav, hf_token |-> hf_token,
     wav_filepath |-> NoWavFile, process_file |-> UploadPath(filepath),
     segments |-> <<>>, turns |-> <<>>, raw_speakers |-> {}, todo_speakers |-> {},
     speakers_data |-> NoSpeakersData, transcript |-> NoTranscript,
     cleanup_calls |-> 0, diarization_ran |-> FALSE,
     raising |-> FALSE, success |-> FALSE]

UnchangedButPipeline ==
    /\ UNCHANGED <<speakers, segments, conn, last, clock>>
    /\ UNCHANGED <<job_segments, known_speakers, query_embedding, match_result>>
    /\ UNCHANGED <<calls, files, pure_call>>

\* an exception leaves the try block of transcribe_file: except re-raises,
\* the finally block is next
Raise(job) == [job EXCEPT !.pc = "finally", !.raising = TRUE]

\* what ffmpeg can do in convert_to_wav: succeed, exit with an error having
\* written part of the output or nothing, or not start at all
ConvertOutcomes ==
    {[raises |-> TRUE,  returncode |-> 0, wrote |-> FALSE],
     [raises |-> FALSE, returncode |-> 0, wrote |-> TRUE],
     [raises |-> FALSE, returncode |-> 1, wrote |-> TRUE],
     [raises |-> FALSE, returncode |-> 1, wrote |-> FALSE]}

\* AudioProcessor.convert_to_wav with ffmpeg behaving as tool: the returned
\* path or None (propagates when subprocess.run raises another exception
\* than CalledProcessError), and the files afterwards
convert_to_wav(fs, input_path, tool) ==
    LET output_path == ConvertedPath(input_path)
        written     == IF tool.wrote THEN WriteFile(fs, output_path, MinClipSize) ELSE fs
    IN  IF tool.raises
        THEN [raised |-> TRUE, found |-> FALSE, path |-> output_path, files |-> fs]
        ELSE IF tool.returncode = 0
             THEN [raised |-> FALSE, found |-> TRUE, path |-> output_path, files |-> written]
             ELSE [raised |-> FALSE, found |-> FALSE, path |-> output_path, files |-> written]

\* "Convert to WAV if needed"
ConvertToWav ==
    /\ pipeline.pc = "convert"
    /\ IF pipeline.is_wav
       THEN /\ pipeline' = [pipeline EXCEPT !.pc = "load_audio",
                                            !.process_file = UploadPath(pipeline.filepath)]
            /\ UNCHANGED files
       ELSE \E tool \in ConvertOutcomes :
               LET r == convert_to_wav(files, pipeline.filepath, tool)
               IN  /\ files' = r.files
                   /\ pipeline' =
                         IF r.raised THEN Raise(pipeline)
                         ELSE IF r.found
                              THEN [pipeline EXCEPT !.pc = "load_audio",
                                                    !.wav_filepath =
                                                        [found |-> TRUE, path |-> r.path],
                                                    !.process_file = r.path]
                              ELSE [pipeline EXCEPT !.pc = "load_audio",
                                                    !.process_file =
                                                        UploadPath(pipeline.filepath)]
    /\ UNCHANGED <<speakers, segments, conn, last, clock>>
    /\ UNCHANGED <<job_segments, known_speakers, query_embedding, match_result>>
    /\ UNCHANGED <<calls, pure_call>>

\* audio = whisperx.load_audio(process_file)
LoadAudio ==
    /\ pipeline.pc = "load_audio"
    /\ \E ok \in BOOLEAN :
          pipeline' = IF ok THEN [pipeline EXCEPT !.pc = "transcribe"] ELSE Raise(pipeline)
    /\ UnchangedButPipeline

\* the segments whisperx can return: n segments of 6 seconds, 30 seconds apart
TranscribedSegments(n) ==
    [i \in 1..n |-> Segment(Seconds(30) * (i - 1), Seconds(30) * (i - 1) + Seconds(6),
                            "w", None)]

\* _transcribe_audio: model.transcribe(audio, ...)
Transcribe ==
    /\ pipeline.pc = "transcribe"
    /\ \/ \E n \in 1..MaxSegments :
             pipeline' = [pipeline EXCEPT !.pc = "align", !.segments = TranscribedSegments(n)]
       \/ pipeline' = Raise(pipeline)
    /\ UnchangedButPipeline

\* _transcribe_audio: get_align_model, whisperx.align, then
\* model_manager.cleanup_memory()
Align ==
    /\ pipeline.pc = "align"
    /\ \E ok \in BOOLEAN :
          pipeline' = IF ok
                      THEN [pipeline EXCEPT !.pc = "check_token", !.cleanup_calls = @ + 1]
                      ELSE Raise(pipeline)
    /\ UnchangedButPipeline

\* transcribe_file that calls _process_speakers whatever Config.HF_TOKEN is
CheckToken_always_diarize ==
    /\ pipeline.pc = "check_token"
    /\ pipeline' = [pipeline EXCEPT !.pc = "get_pipeline"]
    /\ UnchangedButPipeline

\* "if Config.HF_TOKEN:" in transcribe_file
CheckToken ==
    /\ pipeline.pc = "check_token"
    /\ pipeline' = IF pipeline.hf_token
                   THEN [pipeline EXCEPT !.pc = "get_pipeline"]
                   ELSE [pipeline EXCEPT !.pc = "save_transcript"]
    /\ UnchangedButPipeline

\* an exception inside the try block of _process_speakers:
\* return {"enabled": False, "error": str(e)}
DiarizationError(job) ==
    [job EXCEPT !.pc = "save_transcript", !.speakers_data = ErrorSpeakersData]

\* pipeline = model_manager.get_diarization_pipeline(); None when it cannot
\* be loaded: "if not pipeline: return None"
GetDiarizationPipeline ==
    /\ pipeline.pc = "get_pipeline"
    /\ \E loaded \in BOOLEAN :
          pipeline' = IF loaded
                      THEN [pipeline EXCEPT !.pc = "diarize"]
                      ELSE [pipeline EXCEPT !.pc = "save_transcript",
                                            !.speakers_data = NoSpeakersData]
    /\ UnchangedButPipeline

Turn(start, end, speaker) == [start |-> start, end |-> end, speaker |-> speaker]

\* what diarization.itertracks can yield, in its order
DiarizationOutputs ==
    {<<>>,
     <<Turn(0, Seconds(20), "SPEAKER_00")>>,
     <<Turn(0, Seconds(20), "SPEAKER_00"), Turn(Seconds(20), Seconds(50), "SPEAKER_01")>>,
     <<Turn(0, Seconds(50), "SPEAKER_00"), Turn(Seconds(20), Seconds(70), "SPEAKER_01")>>,
     <<Turn(Seconds(3), Seconds(33), "SPEAKER_01")>>,
     <<Turn(Seconds(20), Seconds(50), "SPEAKER_01"), Turn(Seconds(30), Seconds(70), "SPEAKER_00")>>}

\* the turns that hold the midpoint of the segment, by position; the
\* midpoint is (start + end) / 2, compared here after doubling
TurnsAtMidpoint(segment, turns) ==
    {k \in DOMAIN turns :
        /\ 2 * turns[k].start <= segment.start + segment.end
        /\ segment.start + segment.end <= 2 * turns[k].end}

Least(S) == CHOOSE k \in S : \A j \in S : k <= j

\* the assignment that lets the last turn holding the midpoint win
AssignSpeakers_last_turn(segs, turns) ==
    [i \in DOMAIN segs |->
        IF TurnsAtMidpoint(segs[i], turns) = {} THEN segs[i]
        ELSE [segs[i] EXCEPT
                 !.keys = @ \cup {"speaker"},
                 !.speaker = turns[CHOOSE k \in TurnsAtMidpoint(segs[i], turns) :
                                      \A j \in TurnsAtMidpoint(segs[i], turns) : j <= k].speaker]]

\* "Assign speakers to segments": the first turn holding the midpoint
AssignSpeakers(segs, turns) ==
    [i \in DOMAIN segs |->
        IF TurnsAtMidpoint(segs[i], turns) = {} THEN segs[i]
        ELSE [segs[i] EXCEPT
                 !.keys = @ \cup {"speaker"},
                 !.speaker = turns[Least(TurnsAtMidpoint(segs[i], turns))].speaker]]

\* "Extract unique speakers"
UniqueSpeakers(segs) == {segs[i].speaker : i \in {j \in DOMAIN segs : "speaker" \in segs[j].keys}}

\* diarization = pipeline(process_file), the assignment of speakers to the
\* segments, and speakers_data
Diarize ==
    /\ pipeline.pc = "diarize"
    /\ \/ \E turns \in DiarizationOutputs :
             LET assigned == AssignSpeakers(pipeline.segments, turns)
             IN  pipeline' = [pipeline EXCEPT
                                 !.pc = "match",
                                 !.diarization_ran = TRUE,
                                 !.turns = turns,
                                 !.segments = assigned,
                                 !.raw_speakers = UniqueSpeakers(assigned),
                                 !.todo_speakers = UniqueSpeakers(assigned),
                                 !.speakers_data = EnabledSpeakersData(UniqueSpeakers(assigned))]
       \/ pipeline' = DiarizationError([pipeline EXCEPT !.diarization_ran = TRUE])
    /\ UnchangedButPipeline

\* what compute_embedding returns in a job of the model
PipelineEmbeddings ==
    {Array(v \o Zeros(EMBEDDING_DIMENSION - Len(v))) : v \in {<<1, 0>>, <<0, 1>>}}

\* "Match to known speakers"
Match ==
    /\ pipeline.pc = "match"
    /\ \/ \E known \in get_speakers_with_embeddings(speakers) :
          \E embeddings \in [IF known = <<>> THEN {} ELSE LabelSet(pipeline.segments)
                               -> PipelineEmbeddings] :
             LET r == match_speakers(pipeline.segments, known, embeddings)
             IN  pipeline' =
                    IF known = <<>> THEN [pipeline EXCEPT !.pc = "save_clips"]
                    ELSE IF r.raised THEN DiarizationError(pipeline)
                    ELSE [pipeline EXCEPT
                             !.pc = "save_clips",
                             !.segments = r.segments,
                             !.speakers_data =
                                 IF DOMAIN r.speaker_mapping = {} THEN @
                                 ELSE [@ EXCEPT !.mappings = r.speaker_mapping]]
       \/ pipeline' = DiarizationError(pipeline)
    /\ UnchangedButPipeline

\* _save_speaker_clips: one turn of "for speaker in speakers", over the raw
\* labels collected before matching; the set gives no order
SaveSpeakerClip ==
    /\ pipeline.pc = "save_clips"
    /\ pipeline.todo_speakers # {}
    /\ \/ \E speaker \in pipeline.todo_speakers :
          \E tool \in TranscoderOutcomes, embedding \in PipelineEmbeddings :
             LET best == find_best_speaker_segment(pipeline.segments, speaker)
                 clip == extract_speaker_clip(files, best.segment.start, best.segment.end,
                                              speaker, TranscriptId, tool)
                 saved == save_speaker(speakers, speaker, clip.path, best.segment.text,
                                       embedding, clock, FALSE)
             IN  /\ pipeline' = [pipeline EXCEPT !.todo_speakers = @ \ {speaker}]
                 /\ files' = IF best.found THEN clip.files ELSE files
                 /\ speakers' = IF best.found /\ clip.found THEN saved.tbl ELSE speakers
       \/ /\ pipeline' = DiarizationError(pipeline)
          /\ UNCHANGED <<files, speakers>>
    /\ UNCHANGED <<segments, conn, last, clock>>
    /\ UNCHANGED <<job_segments, known_speakers, query_embedding, match_result>>
    /\ UNCHANGED <<calls, pure_call>>

\* _save_speaker_clips has returned: return speakers_data
SaveClipsDone ==
    /\ pipeline.pc = "save_clips"
    /\ pipeline.todo_speakers = {}
    /\ pipeline' = [pipeline EXCEPT !.pc = "save_transcript"]
    /\ UnchangedButPipeline

\* ' '.join([seg.get('text', '') for seg in segments])
PlainText(segs) == [i \in DOMAIN segs |-> TextPiece(segs[i].text)]

\* the text that renders the speakers whenever speakers_data is a dict
FullText_ignoring_enabled(segs, speakers_data) ==
    IF speakers_data.present THEN create_speaker_text(segs) ELSE PlainText(segs)

\* _save_transcript: "if speakers_data and speakers_data.get('enabled')"
FullText(segs, speakers_data) ==
    IF speakers_data.present /\ speakers_data.enabled
    THEN create_speaker_text(segs)
    ELSE PlainText(segs)

\* _save_transcript: the transcript is written to its json file; open or
\* json.dump can raise
SaveTranscript ==
    /\ pipeline.pc = "save_transcript"
    /\ \/ /\ pipeline' = [pipeline EXCEPT
                             !.pc = "cleanup",
                             !.transcript =
                                 [present |-> TRUE, id |-> TranscriptId,
                                  segments |-> pipeline.segments,
                                  text |-> FullText(pipeline.segments, pipeline.speakers_data),
                                  speakers |-> pipeline.speakers_data]]
          /\ files' = WriteFile(files, TranscriptPath(TranscriptId), MinClipSize)
       \/ /\ pipeline' = Raise(pipeline)
          /\ UNCHANGED files
    /\ UNCHANGED <<speakers, segments, conn, last, clock>>
    /\ UNCHANGED <<job_segments, known_speakers, query_embedding, match_result>>
    /\ UNCHANGED <<calls, pure_call>>

\* model_manager.cleanup_memory(); return {'success': True, ...}
CleanupAndReturn ==
    /\ pipeline.pc = "cleanup"
    /\ pipeline' = [pipeline EXCEPT !.pc = "finally", !.cleanup_calls = @ + 1,
                                    !.success = TRUE]
    /\ UnchangedButPipeline

\* finally: "if wav_filepath and os.path.exists(wav_filepath): os.remove"
Finally ==
    /\ pipeline.pc = "finally"
    /\ pipeline' = [pipeline EXCEPT !.pc = IF pipeline.raising THEN "raised" ELSE "returned"]
    /\ files' = IF pipeline.wav_filepath.found /\ FileExists(files, pipeline.wav_filepath.path)
                THEN RemoveFile(files, pipeline.wav_filepath.path)
                ELSE files
    /\ UNCHANGED <<speakers, segments, conn, last, clock>>
    /\ UNCHANGED <<job_segments, known_speakers, query_embedding, match_result>>
    /\ UNCHANGED <<calls, pure_call>>

\* the registry when the job starts: empty, or holding the identity Alice
\* that an earlier job saved as SPEAKER_00 and a user renamed
RegistryWithAlice ==
    update_speaker_name(
        save_speaker({}, "SPEAKER_00", ClipPath("t0", "SPEAKER_00", 0), "w",
                     Array(<<1, 0>> \o Zeros(EMBEDDING_DIMENSION - 2)), 0, FALSE).tbl,
        "SPEAKER_00", "Alice", 0, FALSE).tbl

InitPipeline ==
    /\ speakers \in {{}, RegistryWithAlice}
    /\ segments = {}
    /\ conn = IdleConn
    /\ last = NoCall
    /\ clock = 1
    /\ job_segments = <<>>
    /\ known_speakers = <<>>
    /\ query_embedding = <<>>
    /\ match_result = [done |-> FALSE]
    /\ calls = <<>>
    /\ pipeline \in {NewJob("upload.wav", TRUE, hf_token) : hf_token \in BOOLEAN}
                    \cup {NewJob("upload.mp3", FALSE, hf_token) : hf_token \in BOOLEAN}
    /\ files \in {{[path |-> UploadPath(pipeline.filepath), size |-> MinClipSize + 1]}}
    /\ pure_call = [done |-> FALSE]

NextPipeline ==
    \/ ConvertToWav
    \/ LoadAudio
    \/ Transcribe
    \/ Align
    \/ CheckToken
    \/ GetDiarizationPipeline
    \/ Diarize
    \/ Match
    \/ SaveSpeakerClip
    \/ SaveClipsDone
    \/ SaveTranscript
    \/ CleanupAndReturn
    \/ Finally

SpecPipeline == InitPipeline /\ [][NextPipeline]_vars

(***************************************************************************)
(* Properties of the registry, checked under SpecRegistry.                 *)
(***************************************************************************)
\* the step completes a call of op
Completed(op) == last'.op = op /\ clock' = clock + 1

OtherRowsUnchanged(id) ==
    {r \in speakers : r.id # id} = {r \in speakers' : r.id # id}

\* C1: whenever a record with id X exists, save_speaker(X, clip, sample,
\* embedding), whatever the arguments, adds exactly 1 to that record's
\* appearance_count and leaves its name, embedding, clip_path,
\* transcript_sample and created_at (and every other record) as they were.
C1_UpsertExistingIncrementsOnly ==
    [][ (Completed("save_speaker") /\ last'.fault = "none" /\ HasRow(speakers, last'.id))
        => /\ last'.ok
           /\ HasRow(speakers', last'.id)
           /\ LET old == Row(speakers, last'.id)
                  new == Row(speakers', last'.id)
              IN  /\ new.appearance_count = old.appearance_count + 1
                  /\ new.name = old.name
                  /\ new.embedding = old.embedding
                  /\ new.clip_path = old.clip_path
                  /\ new.transcript_sample = old.transcript_sample
                  /\ new.created_at = old.created_at
           /\ Cardinality(speakers') = Cardinality(speakers)
           /\ OtherRowsUnchanged(last'.id) ]_vars

\* a second upsert that supplied another clip and embedding than the first:
\* the count is 2 and the stored clip and embedding are the first call's
C1_Witness ==
    /\ last.op = "save_speaker" /\ last.fault = "none"
    /\ HasRow(speakers, last.id)
    /\ LET r == Row(speakers, last.id)
       IN  /\ r.appearance_count = 2
           /\ ~r.embedding.is_null /\ r.embedding.nbytes > 0
           /\ r.embedding # EmbeddingBlob(last.pkg.embedding)
           /\ r.clip_path # last.pkg.clip_path

\* C7: save_speaker(X, clip, sample, embedding) on a registry without a record
\* X returns True and inserts exactly one record: id X, name X,
\* appearance_count 1 and the supplied clip_path, transcript_sample and
\* embedding; no other record changes.
C7_UpsertAbsentInserts ==
    [][ (Completed("save_speaker") /\ last'.fault = "none" /\ ~HasRow(speakers, last'.id))
        => /\ last'.ok
           /\ speakers \subseteq speakers'
           /\ Cardinality(speakers' \ speakers) = 1
           /\ \A r \in speakers' \ speakers :
                /\ r.id = last'.id
                /\ r.name = last'.id
                /\ r.appearance_count = 1
                /\ r.clip_path = last'.pkg.clip_path
                /\ r.transcript_sample = last'.pkg.transcript_sample
                /\ r.embedding.is_null = last'.pkg.embedding.is_none
                /\ ~r.embedding.is_null =>
                      /\ ~FromBufferRaises(r.embedding)
                      /\ FromBuffer(r.embedding) = last'.pkg.embedding.v ]_vars

\* a first upsert of an id, with an embedding, next to another record
C7_Witness ==
    /\ last.op = "save_speaker" /\ last.fault = "none" /\ last.ok
    /\ ~last.pkg.embedding.is_none
    /\ HasRow(speakers, last.id)
    /\ Row(speakers, last.id).appearance_count = 1
    /\ Row(speakers, last.id).created_at = clock - 1
    /\ Cardinality(speakers) = 2

\* C8: update_speaker_name(X, N) returns True; if a record X exists only its
\* name changes, to N; if none exists a record with id X, name N,
\* appearance_count 1 and no embedding, clip or sample is created; no other
\* record changes.
C8_RenameOrCreate ==
    [][ (Completed("update_speaker_name") /\ last'.fault = "none")
        => /\ last'.ok
           /\ HasRow(speakers', last'.id)
           /\ Cardinality({r \in speakers' : r.id = last'.id}) = 1
           /\ OtherRowsUnchanged(last'.id)
           /\ LET new == Row(speakers', last'.id)
              IN  IF HasRow(speakers, last'.id)
                  THEN new = [Row(speakers, last'.id) EXCEPT !.name = last'.arg]
                  ELSE /\ new.name = last'.arg
                       /\ new.appearance_count = 1
                       /\ new.embedding.is_null
                       /\ new.clip_path = None
                       /\ new.transcript_sample = None ]_vars

\* a rename that created its record, in a registry holding a record that an
\* earlier rename changed and that kept its embedding and clip
C8_Witness ==
    /\ last.op = "update_speaker_name" /\ last.fault = "none" /\ last.ok
    /\ HasRow(speakers, last.id)
    /\ Row(speakers, last.id).created_at = clock - 1
    /\ Row(speakers, last.id).name = last.arg
    /\ \E r \in speakers : /\ r.id # last.id
                           /\ r.name # r.id
                           /\ ~r.embedding.is_null
                           /\ r.clip_path # None

\* a name SQLite's LIKE 'SPEAKER_%' matches: "speaker" in either case, then
\* at least one more character
LooksLikeLabel(name) ==
    /\ Len(Chars(name)) >= 8
    /\ \A i \in 1..7 : Upper(Chars(name)[i]) = Chars("SPEAKER_")[i]

ReturnedIds == {last.rows[i].id : i \in DOMAIN last.rows}

\* C6, as amended: get_speakers_with_embeddings returns, once each, exactly
\* the records whose embedding is neither NULL nor empty and whose display
\* name does not match LIKE 'SPEAKER_%', with the record's name and embedding;
\* a record with id SPEAKER_nn is left out while its name is still a label
\* and is returned once it has been renamed.
C6_ReturnsNamedWithEmbedding ==
    last.op = "get_speakers_with_embeddings"
    => /\ ReturnedIds = {r.id : r \in {x \in speakers :
                            /\ ~x.embedding.is_null
                            /\ x.embedding.nbytes > 0
                            /\ ~LooksLikeLabel(x.name)}}
       /\ Len(last.rows) = Cardinality(ReturnedIds)
       /\ \A i \in DOMAIN last.rows :
            \E r \in speakers : /\ r.id = last.rows[i].id
                                /\ r.name = last.rows[i].name
                                /\ r.embedding.data = last.rows[i].embedding

\* a record whose id is a diarization label is returned after its rename
C6_Witness ==
    /\ last.op = "get_speakers_with_embeddings"
    /\ \E i \in DOMAIN last.rows : StartsWith(last.rows[i].id, "SPEAKER_")

\* C6, as claimed: the records returned are exactly those with an embedding
\* whose id does not start with SPEAKER_, so that a record with id SPEAKER_nn
\* is never returned, also after a rename.
C6_AsClaimed ==
    last.op = "get_speakers_with_embeddings"
    => ReturnedIds = {r.id : r \in {x \in speakers :
                         /\ ~x.embedding.is_null
                         /\ x.embedding.nbytes > 0
                         /\ ~StartsWith(x.id, "SPEAKER_")}}

MergeOps == {"api_merge_speakers", "merge_speakers"}

DeleteOps == {"api_speaker_DELETE", "delete_speaker"}

NoReference(id) ==
    /\ ~HasRow(speakers, id)
    /\ \A g \in segments : g.speaker_id # id

\* C4, as claimed: after a successful merge of A into an existing B, A # B,
\* A's record is gone and no row of segments refers to A.
C4_AsClaimed ==
    [][ ( /\ \E op \in MergeOps : Completed(op)
          /\ last'.ok
          /\ last'.id # last'.arg
          /\ HasRow(speakers, last'.id)
          /\ HasRow(speakers, last'.arg) )
        => /\ ~HasRow(speakers', last'.id)
           /\ \A g \in segments' : g.speaker_id # last'.id ]_vars

\* C5, as claimed: a merge of a record into itself (source id = target id) is
\* rejected and leaves the tables as they were, the record neither renamed
\* nor deleted, through the route and through database_updates.merge_speakers.
C5_AsClaimed ==
    [][ ( /\ \E op \in MergeOps : Completed(op)
          /\ last'.id = last'.arg
          /\ HasRow(speakers, last'.id) )
        => /\ ~last'.ok
           /\ UNCHANGED <<speakers, segments>> ]_vars

\* C9, as claimed: after a delete of X that reports success, no record X is
\* left and no row of segments refers to X.
C9_AsClaimed ==
    (last.op \in DeleteOps /\ last.ok) => NoReference(last.id)

\* C10: merge and delete are all-or-nothing. A statement of an open
\* transaction changes nothing committed; a call that fails (any step
\* raising) returns failure and leaves both tables as they were; a call that
\* succeeds through database_updates.py applies both of its writes at once.
C10_AllOrNothing ==
    [][ /\ (conn.pc # "idle" \/ conn'.pc # "idle") /\ ~(clock' = clock + 1 /\ last'.ok)
           => UNCHANGED <<speakers, segments>>
        /\ (\E op \in MergeOps \cup DeleteOps : Completed(op)) /\ last'.fault # "none"
           => /\ ~last'.ok
              /\ UNCHANGED <<speakers, segments>>
        /\ (\E op \in MergeOps \cup DeleteOps : Completed(op)) /\ ~last'.ok
           => UNCHANGED <<speakers, segments>>
        /\ Completed("merge_speakers") /\ last'.ok
           => /\ speakers' = {r \in speakers : r.id # last'.id}
              /\ segments' = {IF g.speaker_id = last'.id
                              THEN [g EXCEPT !.speaker_id = last'.arg] ELSE g
                                : g \in segments}
        /\ Completed("delete_speaker") /\ last'.ok
           => /\ speakers' = {r \in speakers : r.id # last'.id}
              /\ segments' = {g \in segments : g.speaker_id # last'.id} ]_vars

\* a merge of A into B that failed at commit, after both statements ran:
\* A's record and the row of segments referring to A are still there
C10_Witness ==
    /\ last.op = "merge_speakers" /\ last.fault = "commit" /\ ~last.ok
    /\ last.id # last.arg
    /\ conn.pc = "idle"
    /\ HasRow(speakers, last.id)
    /\ HasRow(speakers, last.arg)
    /\ \E g \in segments : g.speaker_id = last.id

\* C23: in every state of the registry, whatever calls of save_speaker,
\* update_speaker_name, merge and delete led to it, no two records have one
\* id and every record's appearance_count is at least 1.
C23_UniqueIdsPositiveCounts ==
    /\ \A r \in speakers : \A q \in speakers : r.id = q.id => r = q
    /\ \A r \in speakers : r.appearance_count >= 1

\* two records, one upserted twice, after a rename of an id that had a record
C23_Witness ==
    /\ Cardinality(speakers) = 2
    /\ \E r \in speakers : r.appearance_count = 2
    /\ last.op \in {"update_speaker_name", "api_merge_speakers"} /\ last.ok
    /\ \E r \in speakers : r.id = last.id /\ r.name # r.id

(***************************************************************************)
(* Properties of match_speakers, checked under SpecMatch.                  *)
(***************************************************************************)
\* the similarity of label L's query embedding and the k-th known identity
QuerySim(L, k) ==
    CosineSimilarity(normalize_embedding(query_embedding[L].v),
                     normalize_embedding(known_speakers[k].embedding))

SimEq(s, t) == ~IsNan(s) /\ ~IsNan(t) /\ ~SimGT(s, t) /\ ~SimGT(t, s)

\* the k-th known identity holds the maximum similarity for label L
HoldsMaximum(L, k) ==
    /\ ~IsNan(QuerySim(L, k))
    /\ \A j \in DOMAIN known_speakers : ~SimGT(QuerySim(L, j), QuerySim(L, k))

MaximumExceedsThreshold(L) ==
    \E k \in DOMAIN known_speakers :
        HoldsMaximum(L, k) /\ SimGT(QuerySim(L, k), SIMILARITY_THRESHOLD)

MaximumIsThreshold(L) ==
    \E k \in DOMAIN known_speakers :
        HoldsMaximum(L, k) /\ SimEq(QuerySim(L, k), SIMILARITY_THRESHOLD)

\* the raw labels of the call that got a query embedding
QueriedLabels ==
    IF known_speakers = <<>> THEN {}
    ELSE {L \in LabelSet(job_segments) : ~query_embedding[L].is_none}

KeepsRawLabel(L) ==
    \A i \in DOMAIN job_segments :
        GetSpeaker(job_segments[i]) = L => match_result.segments[i] = job_segments[i]

\* C2: after match_speakers, a raw label with a query embedding is in the
\* mapping exactly when its maximum similarity over the known identities is
\* strictly greater than 0.6; it is then mapped to the name of an identity
\* holding that maximum; an unmapped label (a maximum of exactly 0.6
\* included) keeps its segments as they were.
C2_MappedIffAboveThreshold ==
    match_result.done =>
        \A L \in QueriedLabels :
            /\ L \in DOMAIN match_result.speaker_mapping <=> MaximumExceedsThreshold(L)
            /\ L \in DOMAIN match_result.speaker_mapping =>
                  \E k \in DOMAIN known_speakers :
                      /\ HoldsMaximum(L, k)
                      /\ known_speakers[k].name = match_result.speaker_mapping[L]
            /\ L \notin DOMAIN match_result.speaker_mapping => KeepsRawLabel(L)

\* one call in which a label with maximum exactly 0.6 stayed unmapped while
\* another label was mapped
C2_Witness ==
    /\ match_result.done
    /\ \E L \in QueriedLabels :
          /\ MaximumIsThreshold(L)
          /\ L \notin DOMAIN match_result.speaker_mapping
          /\ \E i \in DOMAIN job_segments :
                /\ GetSpeaker(job_segments[i]) = L
                /\ GetSpeaker(match_result.segments[i]) = L
    /\ \E L \in QueriedLabels : L \in DOMAIN match_result.speaker_mapping

\* C3: after match_speakers, every relabeled segment's match_confidence is
\* the best similarity of the segment's own original raw label.
C3_AsClaimed ==
    match_result.done =>
        \A i \in DOMAIN match_result.segments :
            LET segment == match_result.segments[i]
            IN  segment.auto_matched =>
                    \E k \in DOMAIN known_speakers :
                        /\ HoldsMaximum(segment.original_speaker, k)
                        /\ SimEq(segment.match_confidence,
                                 QuerySim(segment.original_speaker, k))

\* the segment's speaker is not one that match_speakers groups: it has no
\* speaker, or a speaker that does not start with SPEAKER_
NotRawLabel(segment) ==
    \/ GetSpeaker(segment) = None
    \/ ~StartsWith(GetSpeaker(segment), "SPEAKER_")

MatchFields == {"original_speaker", "auto_matched", "match_confidence"}

\* C21: after match_speakers, every segment that had no speaker or a speaker
\* not starting with SPEAKER_ is as it was: the same speaker (or none), and
\* no original_speaker, auto_matched or match_confidence key.
C21_OtherLabelsNeverRemapped ==
    match_result.done =>
        \A i \in DOMAIN job_segments :
            NotRawLabel(job_segments[i]) =>
                /\ match_result.segments[i] = job_segments[i]
                /\ GetSpeaker(match_result.segments[i]) = GetSpeaker(job_segments[i])
                /\ match_result.segments[i].keys \cap MatchFields = {}
                /\ GetSpeaker(job_segments[i]) \notin DOMAIN match_result.speaker_mapping

\* a call that remapped a raw label to the name Alice and whose segments
\* held a segment already named Alice and a segment without a speaker
C21_Witness ==
    /\ match_result.done
    /\ \E L \in DOMAIN match_result.speaker_mapping : match_result.speaker_mapping[L] = "Alice"
    /\ \E i \in DOMAIN job_segments :
          GetSpeaker(job_segments[i]) = "Alice" /\ ~match_result.segments[i].auto_matched
    /\ \E i \in DOMAIN job_segments :
          GetSpeaker(job_segments[i]) = None /\ "speaker" \notin match_result.segments[i].keys

\* C24: match_speakers returns as many segments as it was given, in their
\* order (start, end and text as they were); a segment whose speaker is a
\* key of the returned mapping has speaker = the mapped name,
\* original_speaker = its raw label and auto_matched = true; every other
\* segment is as it was.
C24_ChangesExactlyMappedSegments ==
    match_result.done =>
        /\ Len(match_result.segments) = Len(job_segments)
        /\ \A i \in DOMAIN job_segments :
              LET before == job_segments[i]
                  after  == match_result.segments[i]
              IN  /\ after.start = before.start
                  /\ after.end = before.end
                  /\ after.text = before.text
                  /\ IF GetSpeaker(before) \in DOMAIN match_result.speaker_mapping
                     THEN /\ GetSpeaker(after) = match_result.speaker_mapping[GetSpeaker(before)]
                          /\ "original_speaker" \in after.keys
                          /\ after.original_speaker = GetSpeaker(before)
                          /\ "auto_matched" \in after.keys
                          /\ after.auto_matched
                          /\ after # before
                     ELSE after = before

\* a call that mapped one raw label and left another raw label unmapped, the
\* mapped label on a segment that was not the first
C24_Witness ==
    /\ match_result.done
    /\ \E i \in DOMAIN job_segments :
          /\ i > 1
          /\ GetSpeaker(job_segments[i]) \in DOMAIN match_result.speaker_mapping
          /\ match_result.segments[i].original_speaker = GetSpeaker(job_segments[i])
          /\ GetSpeaker(match_result.segments[i]) # GetSpeaker(job_segments[i])
    /\ \E i \in DOMAIN job_segments :
          /\ ~NotRawLabel(job_segments[i])
          /\ GetSpeaker(job_segments[i]) \notin DOMAIN match_result.speaker_mapping
          /\ match_result.segments[i] = job_segments[i]

\* processing the k-th known identity fails: normalizing its embedding or
\* comparing with it raises
Failed(k) == NormalizeRaises(known_speakers[k]) \/ CosineRaises(known_speakers[k])

\* the k-th known identity did not fail and holds the maximum similarity
\* for label L among those that did not fail
HoldsMaximumOfUnfailed(L, k) ==
    /\ ~Failed(k)
    /\ ~IsNan(QuerySim(L, k))
    /\ \A j \in DOMAIN known_speakers :
          ~Failed(j) => ~SimGT(QuerySim(L, j), QuerySim(L, k))

C11_AsClaimed ==
    \A j \in Jobs : \A k \in Jobs \ {j} :
        /\ calls[j].pc = "returned" /\ calls[k].pc = "returned"
        /\ calls[j].speaker_id = calls[k].speaker_id
        /\ calls[j].error # "locked" /\ calls[k].error # "locked"
        => /\ calls[j].ok /\ calls[k].ok
           /\ CountOf(speakers, calls[j].speaker_id)
                 = Min(calls[j].count_before, calls[k].count_before) + 2

(***************************************************************************)
(* Properties of the functions, checked under SpecFunctions.               *)
(***************************************************************************)
Returned(fn) == pure_call.done /\ pure_call.fn = fn

\* C20: normalize_embedding(v) has EMBEDDING_DIMENSION components, the first
\* components of v where v has them and 0 after them, and normalizing the
\* result again gives the result.
C20_NormalizeLengthAndIdempotent ==
    Returned("normalize_embedding") =>
        LET v == pure_call.embedding
            r == pure_call.result
        IN  /\ Len(r) = EMBEDDING_DIMENSION
            /\ \A i \in 1..EMBEDDING_DIMENSION : r[i] = IF i <= Len(v) THEN v[i] ELSE 0
            /\ normalize_embedding(r) = r

\* a vector longer than EMBEDDING_DIMENSION, its last component not 0, was
\* normalized
C20_Witness ==
    /\ Returned("normalize_embedding")
    /\ Len(pure_call.embedding) > EMBEDDING_DIMENSION
    /\ pure_call.embedding[Len(pure_call.embedding)] # 0
    /\ pure_call.result # pure_call.embedding

\* segment i's speaker differs from the speaker of the segment before it
SpeakerChangesAt(segs, i) == i > 1 /\ GetSpeaker(segs[i]) # GetSpeaker(segs[i - 1])

ChangeCount(segs) == Cardinality({i \in DOMAIN segs : SpeakerChangesAt(segs, i)})

HeaderCount(pieces) == Cardinality({i \in DOMAIN pieces : pieces[i].header})

\* C16 (amended): the rendered text has one piece for each segment; a piece
\* carries a [speaker]: header exactly when it is the first or its segment's
\* speaker differs from the preceding segment's, so a non-empty sequence
\* has one header more than it has speaker changes.
C16_HeadersAtFirstAndChanges ==
    Returned("_create_speaker_text") =>
        LET segs == pure_call.segments
            r    == pure_call.result
        IN  /\ Len(r) = Len(segs)
            /\ \A i \in DOMAIN r :
                  /\ r[i].header <=> (i = 1 \/ SpeakerChangesAt(segs, i))
                  /\ r[i].header => r[i].speaker = GetSpeakerOrUnknown(segs[i])
            /\ HeaderCount(r) = IF segs = <<>> THEN 0 ELSE 1 + ChangeCount(segs)

\* a rendering with a speaker change and with two consecutive segments of
\* one speaker
C16_Witness ==
    /\ Returned("_create_speaker_text")
    /\ ChangeCount(pure_call.segments) >= 1
    /\ \E i \in DOMAIN pure_call.segments :
          i > 1 /\ ~SpeakerChangesAt(pure_call.segments, i) /\ ~pure_call.result[i].header

\* C16: the rendered text has exactly as many [speaker]: headers as there
\* are speaker changes between consecutive segments, a block starting
\* exactly where a segment's speaker differs from the preceding segment's.
C16_AsClaimed ==
    Returned("_create_speaker_text") =>
        /\ HeaderCount(pure_call.result) = ChangeCount(pure_call.segments)
        /\ \A i \in DOMAIN pure_call.result :
              pure_call.result[i].header <=> SpeakerChangesAt(pure_call.segments, i)

\* the score of a segment by the duration and word-count rule
RuleScore(seg) ==
    LET d == seg.end - seg.start
        w == WordCount(seg.text)
        length == IF d >= Seconds(5) /\ d <= Seconds(10) THEN 10
                  ELSE IF d >= Seconds(3) /\ d <= Seconds(15) THEN 5 ELSE 0
        text   == IF w >= 20 THEN 10 ELSE IF w >= 10 THEN 5 ELSE 0
        penalty == IF d < Seconds(2) \/ d > Seconds(20) THEN 10 ELSE 0
    IN  length + text - penalty

\* the positions of the segments that carry the speaker label of the call
Candidates == {i \in DOMAIN pure_call.segments :
                  GetSpeaker(pure_call.segments[i]) = pure_call.speaker}

\* C17: find_best_speaker_segment returns None when no segment carries the
\* label; otherwise it returns the first segment, in input order, among
\* those of the label with the maximal score.
C17_FirstMaximalOfSpeaker ==
    Returned("find_best_speaker_segment") =>
        LET segs == pure_call.segments
        IN  /\ Candidates = {} => ~pure_call.result.found
            /\ Candidates # {} =>
                  /\ pure_call.result.found
                  /\ \E i \in Candidates :
                        /\ pure_call.result.segment = segs[i]
                        /\ \A j \in Candidates :
                              /\ RuleScore(segs[j]) <= RuleScore(segs[i])
                              /\ j < i => RuleScore(segs[j]) < RuleScore(segs[i])

\* two segments of the label tie at the maximal score, a lower-scored one
\* comes before them, and the first of the two was returned
C17_Witness ==
    /\ Returned("find_best_speaker_segment")
    /\ pure_call.result.found
    /\ \E i \in Candidates, j \in Candidates, k \in Candidates :
          /\ k < i /\ i < j
          /\ RuleScore(pure_call.segments[k]) < RuleScore(pure_call.segments[i])
          /\ RuleScore(pure_call.segments[i]) = RuleScore(pure_call.segments[j])
          /\ pure_call.result.segment = pure_call.segments[i]

\* the padded natural span of the call: (end + 0.2) - max(0, start - 0.2)
PaddedSpan == (pure_call.end + ClipPadding) - Max(0, pure_call.start - ClipPadding)

\* C18: the duration handed to the transcoder is at most MAX_CLIP_DURATION
\* and at most the padded natural span; a padded span shorter than
\* MIN_CLIP_DURATION is handed over unchanged.
C18_ClipDurationBounded ==
    Returned("extract_speaker_clip") /\ pure_call.end >= pure_call.start =>
        /\ pure_call.result.cmd.t <= Seconds(MAX_CLIP_DURATION)
        /\ pure_call.result.cmd.t <= PaddedSpan
        /\ PaddedSpan < Seconds(MIN_CLIP_DURATION) => pure_call.result.cmd.t = PaddedSpan

\* the span 10.0 to 10.4 seconds was requested and 0.8 seconds handed over
C18_Witness ==
    /\ Returned("extract_speaker_clip")
    /\ pure_call.start = Seconds(10) /\ pure_call.end = Seconds(10) + 4
    /\ pure_call.result.cmd.t = 8

\* C19: extract_speaker_clip returns a path only if the transcoder reported
\* success and the file exists and is larger than 1000 bytes; otherwise it
\* returns None and no file is left at the clip path.
C19_AsClaimed ==
    Returned("extract_speaker_clip") =>
        LET clip_path == pure_call.result.cmd.clip_path
        IN  /\ pure_call.result.found =>
                  /\ ~pure_call.result.tool.raises
                  /\ pure_call.result.tool.returncode = 0
                  /\ pure_call.result.path = clip_path
                  /\ FileExists(files, clip_path)
                  /\ FileSize(files, clip_path) > MinClipSize
            /\ ~pure_call.result.found => ~FileExists(files, clip_path)

\* C27: compute_embedding does not raise and does not return None; when
\* the embedding model fails (no model, audio load error, encode error) it
\* returns a vector of exactly EMBEDDING_DIMENSION components, as it does
\* when the model succeeds.
C27_ComputeEmbeddingAlwaysVector ==
    Returned("compute_embedding") =>
        /\ ~pure_call.result.raised
        /\ ~pure_call.result.embedding.is_none
        /\ Len(pure_call.result.embedding.v) = EMBEDDING_DIMENSION
        /\ normalize_embedding(pure_call.result.embedding.v) = pure_call.result.embedding.v

\* the speaker model was not available and the fallback vector came back
C27_Witness ==
    /\ Returned("compute_embedding")
    /\ pure_call.result.model.failure = "model"
    /\ ~pure_call.result.embedding.is_none
    /\ pure_call.result.embedding.v = pure_call.result.model.random

(***************************************************************************)
(* Properties of transcribe_file, checked under SpecPipeline.              *)
(***************************************************************************)
Ended == pipeline.pc \in {"returned", "raised"}

DiarizationSteps == {"get_pipeline", "diarize", "match", "save_clips"}

\* C12: when transcribe_file has returned or raised, it has called
\* model_manager.cleanup_memory.
C12_AsClaimed == Ended => pipeline.cleanup_calls >= 1

\* C13: when transcribe_file has returned or raised, no file is left at the
\* path of the converted WAV.
C13_AsClaimed == Ended => ~FileExists(files, ConvertedPath(pipeline.filepath))

\* C14 (amended): without HF_TOKEN transcribe_file never enters the
\* diarization steps, reaches the saving of the transcript without an
\* exception and with speakers_data None, persists a transcript whose
\* speakers field is None and whose text has no speaker headers, and a
\* call that returns reports success.
C14_NoTokenPersistsNoSpeakers ==
    ~pipeline.hf_token =>
        /\ pipeline.pc \notin DiarizationSteps
        /\ ~pipeline.diarization_ran
        /\ pipeline.pc = "save_transcript" => ~pipeline.raising /\ ~pipeline.speakers_data.present
        /\ pipeline.transcript.present =>
              /\ ~pipeline.transcript.speakers.present
              /\ pipeline.transcript.text = PlainText(pipeline.transcript.segments)
        /\ pipeline.pc = "returned" => pipeline.success /\ pipeline.transcript.present

\* a job without HF_TOKEN has returned success with its transcript persisted
C14_Witness ==
    /\ ~pipeline.hf_token
    /\ pipeline.pc = "returned"
    /\ pipeline.success
    /\ pipeline.transcript.present
    /\ FileExists(files, TranscriptPath(TranscriptId))

\* C14: without HF_TOKEN a call that returns has not entered diarization,
\* reports success, and its persisted transcript has speakers.enabled = false.
C14_AsClaimed ==
    ~pipeline.hf_token /\ pipeline.pc = "returned" =>
        /\ ~pipeline.diarization_ran
        /\ pipeline.success
        /\ pipeline.transcript.present
        /\ pipeline.transcript.speakers.present
        /\ ~pipeline.transcript.speakers.enabled

\* C15: once an exception of the diarization stage has been caught (the
\* speakers data carry its error), the call goes on to save the transcript
\* without a pending exception; the transcript it persists has
\* speakers = {enabled: False, error: message} and a text without speaker
\* headers; a call that returns reports success with the transcript
\* persisted.
C15_DiarizationErrorDowngrades ==
    pipeline.speakers_data.has_error =>
        /\ pipeline.diarization_ran
        /\ pipeline.pc \in {"save_transcript", "cleanup", "finally", "returned", "raised"}
        /\ pipeline.pc = "save_transcript" => ~pipeline.raising
        /\ pipeline.transcript.present =>
              /\ pipeline.transcript.speakers = ErrorSpeakersData
              /\ HeaderCount(pipeline.transcript.text) = 0
              /\ pipeline.transcript.text = PlainText(pipeline.transcript.segments)
        /\ pipeline.pc = "returned" => pipeline.success /\ pipeline.transcript.present
        /\ pipeline.raising => ~pipeline.transcript.present

\* a job whose diarization failed after speakers were assigned to its
\* segments has returned success
C15_Witness ==
    /\ pipeline.pc = "returned"
    /\ pipeline.success
    /\ pipeline.transcript.present
    /\ pipeline.transcript.speakers.has_error
    /\ ~pipeline.transcript.speakers.enabled
    /\ \E i \in DOMAIN pipeline.transcript.segments :
          "speaker" \in pipeline.transcript.segments[i].keys

\* the registry holds no identity that get_speakers_with_embeddings returns
NoKnownSpeakers == get_speakers_with_embeddings(speakers) = {<<>>}

\* C22: with an empty known list, match_speakers returns the segments it was
\* given and an empty mapping; the matching step of _process_speakers leaves
\* the segments and speakers_data as they were, without mappings, and the
\* transcript then persisted has no mappings in its speakers data.
C22_EmptyKnownNoMappings ==
    [][ /\ (pipeline.pc = "match" /\ pipeline'.pc = "save_clips" /\ NoKnownSpeakers)
           => /\ match_speakers(pipeline.segments, <<>>, <<>>)
                    = [raised |-> FALSE, segments |-> pipeline.segments,
                       speaker_mapping |-> EmptyMapping]
              /\ pipeline'.segments = pipeline.segments
              /\ pipeline'.speakers_data = pipeline.speakers_data
              /\ DOMAIN pipeline'.speakers_data.mappings = {}
        /\ (pipeline.pc = "save_transcript" /\ pipeline'.transcript.present /\ NoKnownSpeakers)
           => /\ DOMAIN pipeline'.transcript.speakers.mappings = {}
              /\ \A i \in DOMAIN pipeline'.transcript.segments :
                    ~pipeline'.transcript.segments[i].auto_matched ]_vars

\* a job run against a registry without known identities has returned a
\* diarized transcript with two raw labels and no mappings
C22_Witness ==
    /\ NoKnownSpeakers
    /\ pipeline.pc = "returned"
    /\ pipeline.transcript.present
    /\ pipeline.transcript.speakers.enabled
    /\ pipeline.transcript.speakers.speaker_count = 2
    /\ DOMAIN pipeline.transcript.speakers.mappings = {}
    /\ \E i \in DOMAIN pipeline.transcript.segments :
          GetSpeaker(pipeline.transcript.segments[i]) = "SPEAKER_01"

\* the midpoint (start + end) / 2 of the segment lies in the turn, its two
\* ends included
MidpointIn(segment, turn) ==
    /\ 2 * turn.start <= segment.start + segment.end
    /\ segment.start + segment.end <= 2 * turn.end

\* C25: the diarization step gives each segment the speaker of the first
\* turn, in the order of the turns, that holds the segment's midpoint, also
\* when a later turn holds it too; a segment whose midpoint no turn holds
\* stays without a speaker key; start, end and text stay as they were.
C25_FirstTurnAtMidpoint ==
    [][ (pipeline.pc = "diarize" /\ pipeline'.pc = "match")
        => /\ Len(pipeline'.segments) = Len(pipeline.segments)
           /\ \A i \in DOMAIN pipeline.segments :
                 LET before == pipeline.segments[i]
                     after  == pipeline'.segments[i]
                     turns  == pipeline'.turns
                 IN  /\ after.start = before.start /\ after.end = before.end
                     /\ after.text = before.text
                     /\ (\A k \in DOMAIN turns : ~MidpointIn(before, turns[k]))
                           => "speaker" \notin after.keys
                     /\ \A k \in DOMAIN turns :
                           ( /\ MidpointIn(before, turns[k])
                             /\ \A j \in 1..(k - 1) : ~MidpointIn(before, turns[j]) )
                           => /\ "speaker" \in after.keys
                              /\ after.speaker = turns[k].speaker ]_vars

\* two overlapping turns of different speakers both hold the midpoint of a
\* segment, which got the first turn's speaker, and another segment, its
\* midpoint in no turn, has no speaker
C25_Witness ==
    /\ pipeline.pc = "match"
    /\ Len(pipeline.turns) = 2
    /\ \E i \in DOMAIN pipeline.segments :
          /\ MidpointIn(pipeline.segments[i], pipeline.turns[1])
          /\ MidpointIn(pipeline.segments[i], pipeline.turns[2])
          /\ pipeline.turns[1].speaker # pipeline.turns[2].speaker
          /\ GetSpeaker(pipeline.segments[i]) = pipeline.turns[1].speaker
    /\ \E i \in DOMAIN pipeline.segments : "speaker" \notin pipeline.segments[i].keys

\* the job has returned a transcript with diarization enabled
CompletedWithDiarization ==
    /\ pipeline.pc = "returned"
    /\ pipeline.success
    /\ pipeline.transcript.present
    /\ pipeline.transcript.speakers.present
    /\ pipeline.transcript.speakers.enabled

\* C28: after a job that completed with diarization enabled, every raw label
\* assigned to a segment has a record in the registry, and a record that
\* was there before the job (created before the job's clock) has been
\* counted once more.
C28_AsClaimed ==
    CompletedWithDiarization =>
        \A L \in pipeline.raw_speakers :
            /\ HasRow(speakers, L)
            /\ Row(speakers, L).created_at < clock
                  => Row(speakers, L).appearance_count
                        = Row(RegistryWithAlice, L).appearance_count + 1

\* the raw labels of the job that matching mapped to a known identity
MatchedLabels == DOMAIN pipeline.speakers_data.mappings

\* C29: the turn of _save_speaker_clips for a raw label that was mapped to a
\* known identity selects no segment: it extracts no clip and calls
\* save_speaker for nothing, so the registry and the files stay as they
\* were; a job all of whose labels were mapped leaves the registry as it
\* found it, the matched identity's appearance_count included, and without
\* a record for a raw label that had none.
C29_MatchedLabelNotSaved ==
    [][ /\ ( /\ pipeline.pc = "save_clips" /\ pipeline'.pc = "save_clips"
             /\ pipeline.todo_speakers \ pipeline'.todo_speakers \subseteq MatchedLabels )
           => /\ UNCHANGED <<speakers, files>>
              /\ \A L \in pipeline.todo_speakers \ pipeline'.todo_speakers :
                    ~find_best_speaker_segment(pipeline.segments, L).found
        /\ ( /\ pipeline.pc = "save_clips" /\ pipeline'.pc = "save_transcript"
             /\ ~pipeline'.speakers_data.has_error
             /\ MatchedLabels # {}
             /\ pipeline.raw_speakers \subseteq MatchedLabels )
           => speakers' = RegistryWithAlice ]_vars

\* a job has returned in which SPEAKER_01 was recognised as Alice: SPEAKER_01
\* has no record and the record of Alice still counts one appearance
C29_Witness ==
    /\ CompletedWithDiarization
    /\ "SPEAKER_01" \in DOMAIN pipeline.transcript.speakers.mappings
    /\ pipeline.transcript.speakers.mappings["SPEAKER_01"] = "Alice"
    /\ ~HasRow(speakers, "SPEAKER_01")
    /\ \E r \in speakers : r.name = "Alice" /\ r.appearance_count = 1

====
